---- MODULE Spec2Model ----
(***************************************************************************)
(* Governor: a state-machine supervisor that drives devices through named *)
(* states along declared transitions.  The model follows components.py    *)
(* (Target, State, Device, Motor, Valve, Governor), main.py               *)
(* (GovernorDriver) and cfgmanager.py (ConfigManager).                    *)
(*                                                                         *)
(* Threads of the program:                                                 *)
(*   - the callers of Governor.do_transition (the driver's worker thread), *)
(*   - one event thread per governor (Governor._worker),                   *)
(*   - the thread that serves the driver's write() requests,               *)
(*   - the I/O library's callback threads (device callbacks).              *)
(* A step reads or writes the shared fields of one statement (or one      *)
(* method call) of the source, so that the threads interleave between     *)
(* the statements as they do in the program.                               *)
(***************************************************************************)
EXTENDS Integers, Sequences, FiniteSets, TLC

VARIABLES
    status,            \* Governor._status
    current_state,     \* Governor._current_state
    next_state,        \* Governor._next_state
    abort_transition,  \* Governor._abort_transition
    target,            \* Device._target, per governor and device
    queue,             \* Governor._queue (events)
    worker_lock,       \* Governor._worker_lock: the holder, or "free"
    positions,         \* devices' configured positions (config object)
    connected,         \* device connection, as seen by the I/O library
    homed,             \* Device._homed
    pc,                \* position of each do_transition caller
    cgov,              \* governor a caller is in
    cdest,             \* dest argument of a caller
    origin,            \* local 'origin' of _do_transition
    step,              \* index of the item of device_sequence being run
    sub,               \* index of the device inside the item
    moved,             \* local 'moved_devices'
    entry,             \* Status that do_transition overwrote with Busy
    spc,               \* position of each governor's event thread
    sev,               \* event the event thread is processing
    stopped,           \* devices sent stop() while handling that event
    snap,              \* the states the event thread's last observer
                       \* snapshot flags active, and the next state of
                       \* the snapshot being built (0: none)
    mpc,               \* position of the thread serving write()
    mcmd,              \* the request being served
    active_governor,   \* GovernorDriver._active_governor
    worker_q,          \* GovernorDriver._worker_q
    ret,               \* what the last request returned (or raised)
    calls,             \* what the governor's log shows since the last
                       \* do_transition began: device calls, commits,
                       \* set_state, and a reset by another thread
    nenv,              \* number of device callbacks delivered
    raw_config,        \* ConfigManager._raw_config
    cfg_pc,            \* loaded, checked, built
    cfg_ok,            \* ConfigManager.ok
    gov_transitions,   \* Governor._transitions built from raw_config
    reach,             \* last reachable_states(origin) call and its result
    cfg_errors,        \* the checks of check_config that reported an error
    disk               \* the contents of the configuration file

engVars == <<status, current_state, next_state, abort_transition, target, queue,
             worker_lock, positions>>
devVars == <<connected, homed>>
callVars == <<pc, cgov, cdest, origin, step, sub, moved, entry>>
supVars == <<spc, sev, stopped, snap>>
drvVars == <<mpc, mcmd, active_governor, worker_q, ret>>
cntVars == <<nenv>>
cfgVars == <<raw_config, cfg_pc, cfg_ok, gov_transitions, reach, cfg_errors,
            disk>>

vars == <<engVars, devVars, callVars, supVars, drvVars, calls, cntVars, cfgVars>>

-----------------------------------------------------------------------------
(* Bounds *)

MaxEnv == 1
MaxQueue == 1
MaxEdges == 2       \* edges in a generated table of transitions

-----------------------------------------------------------------------------
(* Program constants *)

STATUS_IDLE == 0
STATUS_BUSY == 1
STATUS_DISABLED == 2
STATUS_FAULT == 3

DISCONNECT_EVENT == "disconnect"
LIMITS_VIOLATED_EVENT == "limits_violated"
TIMEOUT_EVENT == "timeout"
ABORT_EVENT == "abort"

NoTarget == "none"      \* Device._target is None
NoValue == -1           \* a PV read that returns None
Vals == 0..1            \* live values a device can report

-----------------------------------------------------------------------------
(* Configurations.  G1 is a plant with a motor and two dummy devices, G4 a  *)
(* second configuration of the same plant; G2 and G3 are two bench         *)
(* governors with one dummy device each; G5 has one valve, and a state     *)
(* (Half) whose target for the valve is neither Open nor Closed.           *)

Govs == {"G1", "G2", "G3", "G4", "G5"}
Plant == {"G1", "G4"}
Callers == {"w1", "w2"}

Devs(g) ==
    CASE g \in Plant -> {"motorA", "motorB", "motorC"}
      [] g = "G5" -> {"valve"}
      [] OTHER -> {"motorB"}

\* the class of a device: Motor, Valve, or the dummy Device
DevType(g, d) ==
    CASE d = "motorA" -> "Motor"
      [] d = "valve" -> "Valve"
      [] OTHER -> "Device"

States(g) ==
    CASE g \in Plant -> {"Off", "On", "Park"}
      [] g = "G5" -> {"Off", "On", "Half"}
      [] OTHER -> {"Off", "On"}

init_state(g) == "Off"

Tgt(name, lim, ua) == [target |-> name, limits |-> lim, updateAfter |-> ua]

\* State.targets: device -> Target
Targets(g, s) ==
    CASE g \in Plant /\ s = "Off" -> ("motorB" :> Tgt("In", <<0, 0>>, FALSE))
      [] g \in Plant /\ s = "On" -> ("motorA" :> Tgt("In", <<0, 0>>, FALSE))
                                 @@ ("motorB" :> Tgt("In", <<0, 0>>, FALSE))
                                 @@ ("motorC" :> Tgt("In", <<0, 0>>, FALSE))
      [] g \in Plant /\ s = "Park" -> ("motorA" :> Tgt("Out", <<0, 0>>, TRUE))
                                   @@ ("motorC" :> Tgt("In", <<0, 0>>, FALSE))
      [] g = "G5" /\ s = "On" -> ("valve" :> Tgt("Open", <<0, 0>>, FALSE))
      [] g = "G5" /\ s = "Half" -> ("valve" :> Tgt("Half", <<0, 0>>, FALSE))
      [] g \notin Plant \cup {"G5"} /\ s = "On" ->
            ("motorB" :> Tgt("In", <<0, 0>>, FALSE))
      [] OTHER -> <<>>

\* config['transitions']: origin -> destination -> sequence; an item of a
\* sequence is the list of the devices moved together (a single device is a
\* list of one).
CfgTransitions(g) ==
    CASE g \in Plant ->
            ("Off" :> ("On" :> << <<"motorC">>, <<"motorA", "motorB">> >>))
            @@ ("On" :> (("Park" :> << <<"motorA">> >>)
                         @@ ("Off" :> << <<"motorB">> >>)))
            @@ ("Park" :> <<>>)
      [] g = "G5" ->
            ("Off" :> (("On" :> << <<"valve">> >>) @@ ("Half" :> << <<"valve">> >>)))
            @@ ("On" :> <<>>) @@ ("Half" :> <<>>)
      [] OTHER -> ("Off" :> ("On" :> << <<"motorB">> >>)) @@ ("On" :> <<>>)

\* Governor._parse_config, the transitions part: every origin other than the
\* initial state gets an edge to the initial state with an empty sequence,
\* which a configured edge replaces.
ParseTransitions(cfg, init) ==
    [o \in DOMAIN cfg |->
        [d \in (DOMAIN cfg[o]) \cup (IF o # init THEN {init} ELSE {}) |->
            IF d \in DOMAIN cfg[o] THEN cfg[o][d] ELSE <<>>]]

Transitions(g) == ParseTransitions(CfgTransitions(g), init_state(g))

KeyError == {"KeyError"}

\* Governor.reachable_states on a transition table
ReachableIn(tr, o) ==
    IF o \in DOMAIN tr THEN {o} \cup DOMAIN tr[o] ELSE KeyError

reachable_states(g, o) == ReachableIn(Transitions(g), o)

CfgPositions(g, d) ==
    CASE d = "motorA" -> ("In" :> 1) @@ ("Out" :> 0)
      [] d = "valve" -> ("Open" :> 1) @@ ("Closed" :> 0)
      [] OTHER -> ("In" :> 1)

\* Device.positions
DevPositions(g, d) == positions[g][d]

Tolerance(g, d) == 0

\* the devices a sequence names
SeqDevices(seq) == UNION {{seq[i][j] : j \in 1..Len(seq[i])} : i \in 1..Len(seq)}

-----------------------------------------------------------------------------
(* Helpers *)

Enabled(g) == status[g] # STATUS_DISABLED
Busy(g) == status[g] = STATUS_BUSY
Fault(g) == status[g] = STATUS_FAULT

CanPut(g) == Len(queue[g]) < MaxQueue

\* the log of a do_transition that has just begun
NoCalls == [log |-> <<>>, reset |-> "", halted |-> -1, timedout |-> {},
            read |-> <<>>]

HasReset(g) == calls[g].reset # ""

\* a set_state(init) call of another thread while a do_transition runs: the
\* log keeps who made the first one
LogReset(g, who) ==
    IF worker_lock[g] # "free" /\ ~HasReset(g)
    THEN [calls EXCEPT ![g].reset = who]
    ELSE calls

\* Governor.set_state: the new value of (current_state, next_state, target)
SetStateVars(g, s, force) ==
    IF current_state[g] # s \/ force
    THEN /\ current_state' = [current_state EXCEPT ![g] = s]
         /\ next_state' = [next_state EXCEPT ![g] = s]
         /\ target' = IF s = init_state(g)
                      THEN [target EXCEPT ![g] = [d \in Devs(g) |-> NoTarget]]
                      ELSE target
    ELSE UNCHANGED <<current_state, next_state, target>>

\* a variant of the band that leaves the tolerance out
Band_notol(p, lim, tol, v) == v < p + lim[1] \/ v > p + lim[2]

\* Motor._value_changed, lines 206-209: value v is outside the band of the
\* target with setpoint p and limits lim, widened by the tolerance
Band(p, lim, tol, v) == v < p + lim[1] - tol \/ v > p + lim[2] + tol

\* Motor._value_changed: is a LIMITS_VIOLATED event due
\* for live value v while the device's target is that of state s
OutOfBand(g, d, s, v) ==
    LET t == Targets(g, s)[d]
        p == DevPositions(g, d)[t.target]
        tol == IF DevType(g, d) = "Motor" THEN Tolerance(g, d) ELSE 0
    IN  Band(p, t.limits, tol, v)

\* Device.connected / Device.homed (the dummy Device is always healthy; only a
\* Motor tracks homing)
ConnectedOf(g, d) == IF DevType(g, d) = "Device" THEN TRUE ELSE connected[g][d]
HomedOf(g, d) == IF DevType(g, d) = "Motor" THEN homed[g][d] ELSE TRUE

RECURSIVE SetToSeq(_)
SetToSeq(S) == IF S = {} THEN <<>>
               ELSE LET x == CHOOSE y \in S : TRUE IN <<x>> \o SetToSeq(S \ {x})

\* the event thread sets the abort flag or writes Fault while a do_transition
\* runs: the log keeps the sequence step the call had begun by then (0 before
\* the first), the first time this happens
MarkHalt(g) ==
    LET c == worker_lock[g] IN
    IF c # "free" /\ calls[g].halted = -1
    THEN [calls EXCEPT ![g].halted =
            IF pc[c] = "loop" /\ step[c] > 0 THEN step[c] - 1 ELSE step[c]]
    ELSE calls

Goto(c, p) == pc' = [pc EXCEPT ![c] = p]
Log(g, e) == calls' = [calls EXCEPT ![g].log = Append(@, e)]

-----------------------------------------------------------------------------
(* Governor.do_transition and Governor._do_transition, run by caller c *)

\* Variants of the code, each with one check or one step left out
LockFree_none(g) == TRUE
ReachCheck_none(g, dest) == TRUE
SameState_none(o, dest) == FALSE
UnmovedDevices_none(g, mv) == {}
AfterMove_serial(s, i) == <<"wait", i>>
CommitAllowed_never(g) == FALSE
AfterRaise_propagate == "unlock"
WriteBackTargets_all(g, o) == DOMAIN Targets(g, o)

\* 'with self._worker_lock' can be entered
LockFree(g) ==worker_lock[g] = "free"

\* line 700: dest in self.reachable_states()
ReachCheck(g, dest) == dest \in reachable_states(g, current_state[g])

\* line 711: origin == dest
SameState(o, dest) == o = dest

\* line 755: all_devices - moved_devices
UnmovedDevices(g, mv) == Devs(g) \ mv

\* the next position after device i of item s was moved: the remaining devices
\* of the item are moved before the first wait
AfterMove(s, i) == IF i < Len(s) THEN <<"move", i + 1>> ELSE <<"wait", 1>>

\* line 751: not self.fault and not self._abort_transition
CommitAllowed(g) == ~Fault(g) /\ ~abort_transition[g]

\* lines 763-765: the lock is taken and the status becomes Busy
TLock(c) ==
    LET g == cgov[c] IN
    /\ pc[c] = "lock"
    /\ LockFree(g)
    /\ worker_lock' = [worker_lock EXCEPT ![g] = c]
    /\ entry' = [entry EXCEPT ![c] = status[g]]
    /\ status' = [status EXCEPT ![g] = STATUS_BUSY]
    /\ calls' = [calls EXCEPT ![g] = NoCalls]
    /\ Goto(c, "clear")
    /\ UNCHANGED <<current_state, next_state, abort_transition, target, queue,
                   positions, devVars, cgov, cdest, origin, step, sub, moved,
                   supVars, drvVars, cntVars, cfgVars>>

TClear(c) ==
    LET g == cgov[c] IN
    /\ pc[c] = "clear"
    /\ abort_transition' = [abort_transition EXCEPT ![g] = FALSE]
    /\ Goto(c, "origin")
    /\ UNCHANGED <<status, current_state, next_state, target, queue,
                   worker_lock, positions, devVars, cgov, cdest, origin, step,
                   sub, moved, entry, supVars, drvVars, calls, cntVars, cfgVars>>

TOrigin(c) ==
    LET g == cgov[c] IN
    /\ pc[c] = "origin"
    /\ origin' = [origin EXCEPT ![c] = current_state[g]]
    /\ Goto(c, "enabled")
    /\ UNCHANGED <<engVars, devVars, cgov, cdest, step, sub, moved, entry,
                   supVars, drvVars, calls, cntVars, cfgVars>>

TEnabled(c) ==
    LET g == cgov[c] IN
    /\ pc[c] = "enabled"
    /\ Goto(c, IF Enabled(g) THEN "reach" ELSE "finchk")
    /\ UNCHANGED <<engVars, devVars, cgov, cdest, origin, step, sub, moved,
                   entry, supVars, drvVars, calls, cntVars, cfgVars>>

TReach(c) ==
    LET g == cgov[c] IN
    /\ pc[c] = "reach"
    /\ Goto(c, IF ReachCheck(g, cdest[c]) THEN "next" ELSE "finchk")
    /\ UNCHANGED <<engVars, devVars, cgov, cdest, origin, step, sub, moved,
                   entry, supVars, drvVars, calls, cntVars, cfgVars>>

TNext(c) ==
    LET g == cgov[c] IN
    /\ pc[c] = "next"
    /\ Log(g, <<"transition", cdest[c]>>)
    /\ next_state' = [next_state EXCEPT ![g] = cdest[c]]
    /\ Goto(c, IF SameState(origin[c], cdest[c]) THEN "finchk" ELSE "writeback")
    /\ UNCHANGED <<status, current_state, abort_transition, target, queue,
                   worker_lock, positions, devVars, cgov, cdest, origin, step,
                   sub, moved, entry, supVars, drvVars, cntVars, cfgVars>>

\* lines 715-716: the devices of the origin's targets marked updateAfter
WriteBackTargets(g, o) ==
    {d \in DOMAIN Targets(g, o) : Targets(g, o)[d].updateAfter}

\* lines 715-723: the updateAfter positions are written back (each
\* set_device_position reads the device's value and commits), then the
\* sequence is looked up; a missing edge raises KeyError
TWriteBack(c) ==
    LET g == cgov[c]
        ua == SetToSeq(WriteBackTargets(g, origin[c]))
    IN
    /\ pc[c] = "writeback"
    /\ \E val \in [1..Len(ua) -> Vals \cup {NoValue}] :
        LET written == {i \in 1..Len(ua) : val[i] # NoValue}
            newpos(d) ==
                IF \E i \in written : ua[i] = d
                THEN LET i == CHOOSE i \in written : ua[i] = d
                     IN  [positions[g][d] EXCEPT
                            ![Targets(g, origin[c])[d].target] = val[i]]
                ELSE positions[g][d]
        IN
        /\ positions' = [positions EXCEPT ![g] = [d \in Devs(g) |-> newpos(d)]]
        /\ calls' = [calls EXCEPT
                        ![g].log =
                            @ \o [k \in 1..Cardinality(written) |->
                                    <<"commit", ua[SetToSeq(written)[k]]>>],
                        ![g].read =
                            [d \in {ua[i] : i \in 1..Len(ua)} |->
                                val[CHOOSE i \in 1..Len(ua) : ua[i] = d]]]
    /\ IF cdest[c] \in DOMAIN Transitions(g)[origin[c]]
       THEN /\ Goto(c, "loop")
            /\ step' = [step EXCEPT ![c] = 1]
            /\ moved' = [moved EXCEPT ![c] = {}]
       ELSE /\ Goto(c, "finchk")
            /\ UNCHANGED <<step, moved>>
    /\ UNCHANGED <<status, current_state, next_state, abort_transition, target,
                   queue, worker_lock, devVars, cgov, cdest, origin, sub, entry,
                   supVars, drvVars, cntVars, cfgVars>>

\* line 728-730: the next item of the sequence; 'if self.fault: return'
TLoop(c) ==
    LET g == cgov[c]
        seq == Transitions(g)[origin[c]][cdest[c]]
    IN
    /\ pc[c] = "loop"
    /\ IF step[c] > Len(seq)
       THEN Goto(c, "commitchk") /\ UNCHANGED sub
       ELSE IF Fault(g)
            THEN Goto(c, "finchk") /\ UNCHANGED sub
            ELSE Goto(c, "move") /\ sub' = [sub EXCEPT ![c] = 1]
    /\ UNCHANGED <<engVars, devVars, cgov, cdest, origin, step, moved, entry,
                   supVars, drvVars, calls, cntVars, cfgVars>>

\* Valve.move, lines 339-345: the target is neither Open nor Closed, and move
\* raises ValueError
MoveRaises(g, d, s) ==
    DevType(g, d) = "Valve" /\ Targets(g, s)[d].target \notin {"Open", "Closed"}

\* lines 769-774: 'except Exception' logs the exception, and do_transition
\* goes on at the test of the Status
AfterRaise == "finchk"

\* lines 739-742: moved_devices.add; if not abort: device.move(target)
\* (move latches the device's target to None, and a Valve then raises
\* ValueError for a target it does not know)
TMove(c) ==
    LET g == cgov[c]
        item == Transitions(g)[origin[c]][cdest[c]][step[c]]
        d == item[sub[c]]
        nxt == AfterMove(item, sub[c])
    IN
    /\ pc[c] = "move"
    /\ moved' = [moved EXCEPT ![c] = @ \cup {d}]
    /\ IF abort_transition[g]
       THEN UNCHANGED <<target, calls>>
       ELSE /\ target' = [target EXCEPT ![g][d] = NoTarget]
            /\ Log(g, IF MoveRaises(g, d, cdest[c])
                      THEN <<"raise", d>> ELSE <<"move", d>>)
    /\ IF ~abort_transition[g] /\ MoveRaises(g, d, cdest[c])
       THEN Goto(c, AfterRaise) /\ UNCHANGED sub
       ELSE Goto(c, nxt[1]) /\ sub' = [sub EXCEPT ![c] = nxt[2]]
    /\ UNCHANGED <<status, current_state, next_state, abort_transition, queue,
                   worker_lock, positions, devVars, cgov, cdest, origin, step,
                   entry, supVars, drvVars, cntVars, cfgVars>>

\* lines 745-746: if not abort: device.wait().  A wait that times out puts a
\* TIMEOUT event and returns False; the result is not looked at.
TWait(c) ==
    LET g == cgov[c]
        d == Transitions(g)[origin[c]][cdest[c]][step[c]][sub[c]]
    IN
    /\ pc[c] = "wait"
    /\ IF abort_transition[g]
       THEN UNCHANGED <<queue, calls>>
       ELSE \E ok \in (IF DevType(g, d) = "Device" \/ ~CanPut(g)
                       THEN {TRUE} ELSE BOOLEAN) :
              /\ calls' = [calls EXCEPT
                            ![g].log = Append(@, <<"wait", d>>),
                            ![g].timedout = IF ok THEN @ ELSE @ \cup {d}]
              /\ IF ok THEN UNCHANGED queue
                 ELSE queue' = [queue EXCEPT ![g] = Append(@, TIMEOUT_EVENT)]
    /\ Goto(c, "assignchk")
    /\ UNCHANGED <<status, current_state, next_state, abort_transition, target,
                   worker_lock, positions, devVars, cgov, cdest, origin, step,
                   sub, moved, entry, supVars, drvVars, cntVars, cfgVars>>

AfterAssign(c) ==
    LET item == Transitions(cgov[c])[origin[c]][cdest[c]][step[c]] IN
    IF sub[c] < Len(item)
    THEN /\ Goto(c, "wait")
         /\ sub' = [sub EXCEPT ![c] = @ + 1]
         /\ UNCHANGED step
    ELSE /\ Goto(c, "loop")
         /\ step' = [step EXCEPT ![c] = @ + 1]
         /\ UNCHANGED sub

\* line 747: if not self._abort_transition
TAssignChk(c) ==
    LET g == cgov[c] IN
    /\ pc[c] = "assignchk"
    /\ IF abort_transition[g]
       THEN AfterAssign(c)
       ELSE Goto(c, "assign") /\ UNCHANGED <<step, sub>>
    /\ UNCHANGED <<engVars, devVars, cgov, cdest, origin, moved, entry,
                   supVars, drvVars, calls, cntVars, cfgVars>>

\* line 748: device.target = target (a Motor checks its live value against
\* the new band at once)
TAssign(c) ==
    LET g == cgov[c]
        d == Transitions(g)[origin[c]][cdest[c]][step[c]][sub[c]]
    IN
    /\ pc[c] = "assign"
    /\ target' = [target EXCEPT ![g][d] = cdest[c]]
    /\ Log(g, <<"assign", d>>)
    /\ IF DevType(g, d) = "Device"
       THEN UNCHANGED queue
       ELSE \E v \in Vals :
              IF OutOfBand(g, d, cdest[c], v) /\ CanPut(g)
              THEN queue' = [queue EXCEPT ![g] = Append(@, LIMITS_VIOLATED_EVENT)]
              ELSE UNCHANGED queue
    /\ AfterAssign(c)
    /\ UNCHANGED <<status, current_state, next_state, abort_transition,
                   worker_lock, positions, devVars, cgov, cdest, origin, moved,
                   entry, supVars, drvVars, cntVars, cfgVars>>

\* line 751: if not self.fault and not self._abort_transition
TCommitChk(c) ==
    LET g == cgov[c] IN
    /\ pc[c] = "commitchk"
    /\ Goto(c, IF CommitAllowed(g) THEN "commit" ELSE "unmoved")
    /\ UNCHANGED <<engVars, devVars, cgov, cdest, origin, step, sub, moved,
                   entry, supVars, drvVars, calls, cntVars, cfgVars>>

\* line 752: self.set_state(dest)
TCommit(c) ==
    LET g == cgov[c] IN
    /\ pc[c] = "commit"
    /\ SetStateVars(g, cdest[c], FALSE)
    /\ Log(g, <<"set_state", cdest[c]>>)
    /\ Goto(c, "unmoved")
    /\ UNCHANGED <<status, abort_transition, queue, worker_lock, positions,
                   devVars, cgov, cdest, origin, step, sub, moved, entry,
                   supVars, drvVars, cntVars, cfgVars>>

\* lines 755-757: the devices the transition did not move are not monitored
TUnmoved(c) ==
    LET g == cgov[c] IN
    /\ pc[c] = "unmoved"
    /\ target' = [target EXCEPT ![g] =
                    [d \in Devs(g) |-> IF d \in UnmovedDevices(g, moved[c])
                                       THEN NoTarget ELSE target[g][d]]]
    /\ Goto(c, "finchk")
    /\ UNCHANGED <<status, current_state, next_state, abort_transition, queue,
                   worker_lock, positions, devVars, cgov, cdest, origin, step,
                   sub, moved, entry, supVars, drvVars, calls, cntVars, cfgVars>>

\* line 774: if self._status == self.STATUS_BUSY
TFinChk(c) ==
    LET g == cgov[c] IN
    /\ pc[c] = "finchk"
    /\ Goto(c, IF Busy(g) THEN "finset" ELSE "finclear")
    /\ UNCHANGED <<engVars, devVars, cgov, cdest, origin, step, sub, moved,
                   entry, supVars, drvVars, calls, cntVars, cfgVars>>

\* line 775: self._status = self.STATUS_IDLE
TFinSet(c) ==
    LET g == cgov[c] IN
    /\ pc[c] = "finset"
    /\ status' = [status EXCEPT ![g] = STATUS_IDLE]
    /\ Goto(c, "finclear")
    /\ UNCHANGED <<current_state, next_state, abort_transition, target, queue,
                   worker_lock, positions, devVars, cgov, cdest, origin, step,
                   sub, moved, entry, supVars, drvVars, calls, cntVars, cfgVars>>

\* lines 777-778: self._abort_transition = False; notify
TFinClear(c) ==
    LET g == cgov[c] IN
    /\ pc[c] = "finclear"
    /\ abort_transition' = [abort_transition EXCEPT ![g] = FALSE]
    /\ Goto(c, "unlock")
    /\ UNCHANGED <<status, current_state, next_state, target, queue,
                   worker_lock, positions, devVars, cgov, cdest, origin, step,
                   sub, moved, entry, supVars, drvVars, calls, cntVars, cfgVars>>

\* the with block is left: the lock is released and do_transition returns
TUnlock(c) ==
    LET g == cgov[c] IN
    /\ pc[c] = "unlock"
    /\ worker_lock' = [worker_lock EXCEPT ![g] = "free"]
    /\ calls' = [calls EXCEPT ![g] = NoCalls]
    /\ Goto(c, "idle")
    /\ origin' = [origin EXCEPT ![c] = init_state(g)]
    /\ step' = [step EXCEPT ![c] = 0]
    /\ sub' = [sub EXCEPT ![c] = 0]
    /\ moved' = [moved EXCEPT ![c] = {}]
    /\ entry' = [entry EXCEPT ![c] = STATUS_IDLE]
    /\ cgov' = [cgov EXCEPT ![c] = "G1"]
    /\ cdest' = [cdest EXCEPT ![c] = init_state("G1")]
    /\ UNCHANGED <<status, current_state, next_state, abort_transition, target,
                   queue, positions, devVars, supVars, drvVars, cntVars,
                   cfgVars>>

Transition(c) ==
    \/ TLock(c) \/ TClear(c) \/ TOrigin(c) \/ TEnabled(c)
    \/ TReach(c) \/ TNext(c) \/ TWriteBack(c) \/ TLoop(c) \/ TMove(c)
    \/ TWait(c) \/ TAssignChk(c) \/ TAssign(c) \/ TCommitChk(c) \/ TCommit(c)
    \/ TUnmoved(c) \/ TFinChk(c) \/ TFinSet(c) \/ TFinClear(c) \/ TUnlock(c)

-----------------------------------------------------------------------------
(* Governor._worker: the event thread of governor g *)

\* lines 799-810: queue.get returns a message; self._abort_transition = True
SGet(g) ==
    /\ spc[g] = "get"
    /\ queue[g] # <<>>
    /\ sev' = [sev EXCEPT ![g] = Head(queue[g])]
    /\ queue' = [queue EXCEPT ![g] = Tail(@)]
    /\ abort_transition' = [abort_transition EXCEPT ![g] = TRUE]
    /\ spc' = [spc EXCEPT ![g] = "force"]
    /\ calls' = MarkHalt(g)
    /\ UNCHANGED <<status, current_state, next_state, target, worker_lock,
                   positions, devVars, callVars, stopped, snap, drvVars,
                   cntVars, cfgVars>>

\* variants of the event thread: one that leaves the state where it is, one
\* that stops no device
ForcedState_current(g) == current_state[g]
StopSet_none(g, ev) == {}

\* lines 812-814: the devices that receive stop() after event ev
StopSet(g, ev) == IF ev = ABORT_EVENT THEN Devs(g) ELSE {}

\* line 811: the state the event thread forces
ForcedState(g) == init_state(g)

\* a variant of the scan that never leaves Fault
Recovers_never(g) == FALSE

\* check_fault_state, lines 788 and 792: every device is healthy, the governor
\* is enabled and its Status is Fault
Recovers(g) == Enabled(g) /\ Fault(g)

\* Governor._states, in the order of the configuration file
StateOrder(g) ==
    CASE g \in Plant -> <<"Off", "On", "Park">>
      [] g = "G5" -> <<"Off", "On", "Half">>
      [] OTHER -> <<"Off", "On">>

\* the snapshot _notify_observer builds when nothing else runs meanwhile
Snapshot(s) == [pos |-> 0, active |-> {s}]

\* lines 811-814: self.set_state(self._init_state, force=True); an ABORT
\* then stops every device.  The event thread goes on at p, with sn the
\* observer snapshot of set_state's _notify_observer.
SForceTo(g, p, sn) ==
    /\ spc[g] = "force"
    /\ SetStateVars(g, ForcedState(g), TRUE)
    /\ calls' = LogReset(g, "event")
    /\ stopped' = [stopped EXCEPT ![g] = StopSet(g, sev[g])]
    /\ sev' = [sev EXCEPT ![g] = ""]
    /\ spc' = [spc EXCEPT ![g] = p]
    /\ snap' = [snap EXCEPT ![g] = sn]
    /\ UNCHANGED <<status, abort_transition, queue, worker_lock, positions,
                   devVars, callVars, drvVars, cntVars, cfgVars>>

\* the event with its notification taken as one step
SForce(g) == SForceTo(g, "scan", Snapshot(ForcedState(g)))

\* the event with the loop of _notify_observer (lines 546-552) still to run
SForceN(g) == SForceTo(g, "notify", [pos |-> 1, active |-> {}])

\* _notify_observer, lines 547-552: one state of the loop; 'active' is
\* state_name == self._current_state, read anew for every state.  After the
\* last state the snapshot goes to the observer (line 566).
SNotify(g) ==
    LET s == StateOrder(g)[snap[g].pos] IN
    /\ spc[g] = "notify"
    /\ snap' = [snap EXCEPT ![g] =
                    [pos |-> IF snap[g].pos < Len(StateOrder(g))
                             THEN snap[g].pos + 1 ELSE 0,
                     active |-> snap[g].active \cup
                                (IF s = current_state[g] THEN {s} ELSE {})]]
    /\ spc' = [spc EXCEPT ![g] =
                    IF snap[g].pos < Len(StateOrder(g)) THEN "notify" ELSE "scan"]
    /\ UNCHANGED <<engVars, devVars, callVars, sev, stopped, drvVars, calls,
                   cntVars, cfgVars>>

\* check_fault_state, lines 784-786: the devices that are not healthy
Unhealthy(g) == {d \in Devs(g) : ~ConnectedOf(g, d) \/ ~HomedOf(g, d)}

\* check_fault_state is due: after an event, or when queue.get raised Empty
ScanDue(g) == spc[g] = "scan" \/ (spc[g] = "get" /\ queue[g] = <<>>)

\* check_fault_state, lines 788-793: the new status
SScan(g) ==
    /\ ScanDue(g)
    /\ IF Enabled(g) /\ Unhealthy(g) # {}
       THEN /\ status' = [status EXCEPT ![g] = STATUS_FAULT]
            /\ spc' = [spc EXCEPT ![g] = "scanset"]
            /\ calls' = MarkHalt(g)
            /\ UNCHANGED stopped
       ELSE IF Recovers(g)
            THEN /\ status' = [status EXCEPT ![g] = STATUS_IDLE]
                 /\ spc' = [spc EXCEPT ![g] = "scanset"]
                 /\ UNCHANGED <<stopped, calls>>
            ELSE /\ UNCHANGED <<status, calls>>
                 /\ spc' = [spc EXCEPT ![g] = "get"]
                 /\ stopped' = [stopped EXCEPT ![g] = {}]
    /\ UNCHANGED <<current_state, next_state, abort_transition, target, queue,
                   worker_lock, positions, devVars, callVars, sev, snap,
                   drvVars, cntVars, cfgVars>>

\* check_fault_state, lines 791 and 794: self.set_state(self._init_state)
SScanSet(g) ==
    /\ spc[g] = "scanset"
    /\ SetStateVars(g, init_state(g), FALSE)
    /\ calls' = LogReset(g, "scan")
    /\ stopped' = [stopped EXCEPT ![g] = {}]
    /\ spc' = [spc EXCEPT ![g] = "get"]
    /\ UNCHANGED <<status, abort_transition, queue, worker_lock, positions,
                   devVars, callVars, sev, snap, drvVars, cntVars, cfgVars>>

Supervisor(g) ==
    \/ SGet(g) \/ SForce(g) \/ SScan(g) \/ SScanSet(g)

-----------------------------------------------------------------------------
(* Device callbacks, run by the I/O library's threads *)

\* Motor._connection_changed
ConnChanged(g, d, conn) ==
    /\ DevType(g, d) # "Device"
    /\ nenv < MaxEnv
    /\ conn # connected[g][d]
    /\ connected' = [connected EXCEPT ![g][d] = conn]
    /\ IF conn
       THEN UNCHANGED queue
       ELSE CanPut(g) /\ queue' = [queue EXCEPT ![g] = Append(@, DISCONNECT_EVENT)]
    /\ nenv' = nenv + 1
    /\ UNCHANGED <<status, current_state, next_state, abort_transition, target,
                   worker_lock, positions, homed, callVars, supVars, drvVars,
                   calls, cfgVars>>

\* Motor._status_changed: bit 0x4000 of the status word
StatusChanged(g, d, h) ==
    /\ DevType(g, d) = "Motor"
    /\ nenv < MaxEnv
    /\ h # homed[g][d]
    /\ homed' = [homed EXCEPT ![g][d] = h]
    /\ nenv' = nenv + 1
    /\ UNCHANGED <<engVars, connected, callVars, supVars, drvVars, calls,
                   cfgVars>>

\* Motor._value_changed with a value out of the band
\* (a value inside the band changes nothing)
ValueChanged(g, d, v) ==
    /\ DevType(g, d) # "Device"
    /\ nenv < MaxEnv
    /\ target[g][d] # NoTarget
    /\ OutOfBand(g, d, target[g][d], v)
    /\ CanPut(g)
    /\ queue' = [queue EXCEPT ![g] = Append(@, LIMITS_VIOLATED_EVENT)]
    /\ nenv' = nenv + 1
    /\ UNCHANGED <<status, current_state, next_state, abort_transition, target,
                   worker_lock, positions, devVars, callVars, supVars, drvVars,
                   calls, cfgVars>>

Callback(g) ==
    \/ \E d \in Devs(g), conn \in BOOLEAN : ConnChanged(g, d, conn)
    \/ \E d \in Devs(g), h \in BOOLEAN : StatusChanged(g, d, h)
    \/ \E d \in Devs(g), v \in Vals : ValueChanged(g, d, v)

-----------------------------------------------------------------------------
(* Requests: Governor.abort, Governor.set_enabled, GovernorDriver.write *)

NoCmd == [op |-> "none", gov |-> "G1", enabled |-> FALSE, next |-> "G1"]

\* the status a request returned, or the exception it raised
Ret(op, st) == [op |-> op, status |-> st]
NoRet == Ret("none", "")

\* Governor.abort: an ABORT event is put on the queue
Abort(g) ==
    /\ mpc = "idle"
    /\ CanPut(g)
    /\ queue' = [queue EXCEPT ![g] = Append(@, ABORT_EVENT)]
    /\ UNCHANGED <<status, current_state, next_state, abort_transition, target,
                   worker_lock, positions, devVars, callVars, supVars, drvVars,
                   calls, cntVars, cfgVars>>

\* A variant of set_enabled without the busy check
BusyCheck_none(g) == FALSE

\* set_enabled, line 528: if self.busy
BusyCheck(g) == Busy(g)

\* set_enabled, lines 524-530: already in that state, or busy: return False
\* (write() then leaves the active governor as it is)
SetEnabledChk ==
    /\ mpc = "se_chk"
    /\ IF Enabled(mcmd.gov) = mcmd.enabled \/ BusyCheck(mcmd.gov)
       THEN /\ mpc' = "idle" /\ mcmd' = NoCmd
            /\ ret' = Ret("select", IF mcmd.enabled THEN "True" ELSE "False")
       ELSE mpc' = "se_write" /\ UNCHANGED <<mcmd, ret>>
    /\ UNCHANGED <<engVars, devVars, callVars, supVars, active_governor,
                   worker_q, calls, cntVars, cfgVars>>

\* set_enabled, lines 532-535
SetEnabledWrite ==
    /\ mpc = "se_write"
    /\ status' = [status EXCEPT ![mcmd.gov] =
                    IF mcmd.enabled THEN STATUS_IDLE ELSE STATUS_DISABLED]
    /\ mpc' = "se_state"
    /\ UNCHANGED <<current_state, next_state, abort_transition, target, queue,
                   worker_lock, positions, devVars, callVars, supVars, mcmd,
                   active_governor, worker_q, ret, calls, cntVars, cfgVars>>

\* set_enabled, lines 537-539: set_state(init_state), return True; write()
\* of Config-Sel then makes the next governor the active one and enables it
SetEnabledState ==
    /\ mpc = "se_state"
    /\ SetStateVars(mcmd.gov, init_state(mcmd.gov), FALSE)
    /\ calls' = LogReset(mcmd.gov, "enable")
    /\ IF mcmd.op = "select" /\ ~mcmd.enabled
       THEN /\ active_governor' = mcmd.next
            /\ mcmd' = [mcmd EXCEPT !.gov = mcmd.next, !.enabled = TRUE]
            /\ mpc' = "se_chk"
            /\ UNCHANGED ret
       ELSE /\ mpc' = "idle"
            /\ mcmd' = NoCmd
            /\ ret' = Ret("select", "True")
            /\ UNCHANGED active_governor
    /\ UNCHANGED <<status, abort_transition, queue, worker_lock, positions,
                   devVars, callVars, supVars, worker_q, cntVars, cfgVars>>

SetEnabled == SetEnabledChk \/ SetEnabledWrite \/ SetEnabledState

\* write("{Gov}Config-Sel", n) with n another governor than the active one
WriteConfigSel(n) ==
    /\ mpc = "idle"
    /\ n # active_governor
    /\ mcmd' = [op |-> "select", gov |-> active_governor, enabled |-> FALSE,
                next |-> n]
    /\ mpc' = "se_chk"
    /\ UNCHANGED <<engVars, devVars, callVars, supVars, active_governor,
                   worker_q, ret, calls, cntVars, cfgVars>>

\* write("{Gov:g}Cmd:Abort-Cmd"): line 206 reads gov_go, which is None for
\* this reason: AttributeError, nothing is put on any queue
WriteGovAbort(g) ==
    /\ mpc = "idle"
    /\ ret' = Ret("gov_abort", "AttributeError")
    /\ UNCHANGED <<engVars, devVars, callVars, supVars, mpc, mcmd,
                   active_governor, worker_q, calls, cntVars, cfgVars>>

\* write("{Gov:g}Cmd:Go-Cmd", value), lines 209-218
WriteGo(g, value) ==
    /\ mpc = "idle"
    /\ Len(worker_q) < MaxQueue
    /\ IF value \in reachable_states(g, current_state[g])
       THEN /\ worker_q' = Append(worker_q, <<g, value>>)
            /\ ret' = Ret("go", "True")
       ELSE /\ UNCHANGED worker_q
            /\ ret' = Ret("go", "False")
    /\ UNCHANGED <<engVars, devVars, callVars, supVars, mpc, mcmd,
                   active_governor, calls, cntVars, cfgVars>>

\* main.py, lines 283-298: the synchronization file, device -> positions
\* kept equal in all governors
SyncTargets == ("motorA" :> {"Out"})

\* the governors a position write is applied to (lines 230-233)
PosGovs(govs, g, d, p) ==
    IF d \in DOMAIN SyncTargets /\ p \in SyncTargets[d] THEN govs ELSE {g}

\* write("{Gov:g-Dev:d}Pos:p-Pos", value), lines 226-239, in a driver with
\* the governors govs: set_device_position of every governor concerned
WriteDevPos(govs, g, d, p, value) ==
    /\ mpc = "idle"
    /\ positions' = [h \in Govs |->
                        IF h \in PosGovs(govs, g, d, p)
                        THEN [positions[h] EXCEPT ![d][p] = value]
                        ELSE positions[h]]
    /\ ret' = Ret("position", "True")
    /\ UNCHANGED <<status, current_state, next_state, abort_transition, target,
                   queue, worker_lock, devVars, callVars, supVars, mpc, mcmd,
                   active_governor, worker_q, calls, cntVars, cfgVars>>

\* GovernorDriver._worker takes the next command: governor.do_transition(value)
WorkerGet(c) ==
    /\ pc[c] = "idle"
    /\ worker_q # <<>>
    /\ cgov' = [cgov EXCEPT ![c] = Head(worker_q)[1]]
    /\ cdest' = [cdest EXCEPT ![c] = Head(worker_q)[2]]
    /\ worker_q' = Tail(worker_q)
    /\ Goto(c, "lock")
    /\ UNCHANGED <<engVars, devVars, origin, step, sub, moved, entry, supVars,
                   mpc, mcmd, active_governor, ret, calls, cntVars, cfgVars>>

\* One Motor by itself, its setpoint, limits and tolerance taken from the
\* configuration in raw_config, its target the Target of state On or None.
MotorCfg(sp, lo, up, tol) ==
    [devices |-> ("motorA" :> [type |-> "Motor", tolerance |-> tol,
                               positions |-> ("In" :> sp)]),
     states |-> ("On" :> [targets |->
                    ("motorA" :> [target |-> "In", limits |-> <<lo, up>>])])]

\* Device.target_pos, Device.limits and Motor.tolerance of that motor
MotorBand(v) ==
    LET t == raw_config.states["On"].targets["motorA"]
        dev == raw_config.devices["motorA"]
    IN  Band(dev.positions[t.target], t.limits, dev.tolerance, v)

\* Motor._value_changed(value=v), lines 204-212: the callback of the readback
MotorValueChanged(g, v) ==
    /\ IF target[g]["motorA"] # NoTarget /\ MotorBand(v)
       THEN CanPut(g) /\ queue' = [queue EXCEPT ![g] = Append(@, LIMITS_VIOLATED_EVENT)]
       ELSE UNCHANGED queue
    /\ ret' = Ret("value", v)
    /\ UNCHANGED <<status, current_state, next_state, abort_transition, target,
                   worker_lock, positions, devVars, callVars, supVars, mpc,
                   mcmd, active_governor, worker_q, calls, cntVars, cfgVars>>

\* the target setter, lines 273-277: the target is installed (None by move(),
\* the Target of the state after the wait) and, unless it is None, the
\* readback v is checked against the new band at once
MotorSetTarget(g, s, v) ==
    /\ target' = [target EXCEPT ![g]["motorA"] = s]
    /\ IF s # NoTarget /\ MotorBand(v)
       THEN CanPut(g) /\ queue' = [queue EXCEPT ![g] = Append(@, LIMITS_VIOLATED_EVENT)]
       ELSE UNCHANGED queue
    /\ ret' = Ret(IF s = NoTarget THEN "move" ELSE "assign", v)
    /\ UNCHANGED <<status, current_state, next_state, abort_transition,
                   worker_lock, positions, devVars, callVars, supVars, mpc,
                   mcmd, active_governor, worker_q, calls, cntVars, cfgVars>>

\* a thread calls governor.do_transition(dest)
Call(c, g, dest) ==
    /\ pc[c] = "idle"
    /\ cgov' = [cgov EXCEPT ![c] = g]
    /\ cdest' = [cdest EXCEPT ![c] = dest]
    /\ Goto(c, "lock")
    /\ UNCHANGED <<engVars, devVars, origin, step, sub, moved, entry, supVars,
                   drvVars, calls, cntVars, cfgVars>>

-----------------------------------------------------------------------------
(* ConfigManager: the checks of a configuration file.  A YAML mapping is a  *)
(* function from its keys; a check gives "ok", "bad" (it returned False) or *)
(* "KeyError" (it raised).  An item of a sequence is written as the list of *)
(* its devices.                                                             *)

\* components.device_types_registry: the classes and their REQUIRED_FIELDS
DeviceTypes == {"Device", "Motor", "Valve"}

REQUIRED_FIELDS(t) ==
    CASE t = "Motor" -> {"name", "timeout", "pv", "tolerance", "positions"}
      [] t = "Valve" -> {"name", "timeout", "pv"}
      [] OTHER -> {"name", "timeout"}

check_mandatory(params, config) == params \subseteq DOMAIN config

check_root_mandatory(raw) ==
    IF check_mandatory({"init_state", "devices", "states"}, raw) THEN "ok" ELSE "bad"

check_init_state(raw) ==
    IF raw.init_state \in DOMAIN raw.states THEN "ok" ELSE "bad"

\* an unknown type is logged and then looked up in the registry (line 117)
check_devices(raw) ==
    LET devs == raw.devices
        typed == {n \in DOMAIN devs : "type" \in DOMAIN devs[n]}
    IN  IF \E n \in typed : devs[n].type \notin DeviceTypes THEN "KeyError"
        ELSE IF typed # DOMAIN devs
                \/ \E n \in typed :
                      ~check_mandatory(REQUIRED_FIELDS(devs[n].type), devs[n])
             THEN "bad" ELSE "ok"

\* state.get('targets', {})
StateTargets(st) == IF "targets" \in DOMAIN st THEN st.targets ELSE <<>>

\* the target name of a state's device is among the device's positions, when
\* the device declares positions; the error message reads the target again
check_states(raw) ==
    LET pairs == {<<s, d>> \in (DOMAIN raw.states) \X (DOMAIN raw.devices) :
                     d \in DOMAIN StateTargets(raw.states[s])}
        unknown == \E s \in DOMAIN raw.states :
                      \E d \in DOMAIN StateTargets(raw.states[s]) :
                          d \notin DOMAIN raw.devices
        dt(p) == raw.states[p[1]].targets[p[2]]
        whole(p) == check_mandatory({"target", "limits"}, dt(p))
        name(p) == IF whole(p) THEN dt(p).target ELSE ""
        invalid(p) == /\ "positions" \in DOMAIN raw.devices[p[2]]
                      /\ name(p) \notin DOMAIN raw.devices[p[2]].positions
    IN  IF \E p \in pairs : invalid(p) /\ "target" \notin DOMAIN dt(p)
        THEN "KeyError"
        ELSE IF unknown \/ \E p \in pairs : ~whole(p) \/ invalid(p)
             THEN "bad" ELSE "ok"

check_limits(raw) ==
    LET pairs == {<<s, d>> \in (DOMAIN raw.states) \X
                               (UNION {DOMAIN StateTargets(raw.states[s]) :
                                          s \in DOMAIN raw.states}) :
                     d \in DOMAIN StateTargets(raw.states[s])}
        dt(p) == raw.states[p[1]].targets[p[2]]
    IN  IF \E p \in pairs : ~check_mandatory({"target", "limits"}, dt(p))
        THEN "KeyError"
        ELSE IF \E p \in pairs : dt(p).limits[1] > dt(p).limits[2]
             THEN "bad" ELSE "ok"

\* A variant of _check_transitions without the test of line 195
check_transitions_loose(raw) ==
    LET tr == IF "transitions" \in DOMAIN raw THEN raw.transitions ELSE <<>>
        edges == {<<o, d>> \in (DOMAIN tr) \X
                               (UNION {DOMAIN tr[o] : o \in DOMAIN tr}) :
                     d \in DOMAIN tr[o]}
        devs(e) == SeqDevices(tr[e[1]][e[2]])
        raises(e) == \/ e[2] \notin DOMAIN raw.states
                     \/ devs(e) # {} /\ "targets" \notin DOMAIN raw.states[e[2]]
        wrong(e) == \E dv \in devs(e) :
                          \/ dv \notin DOMAIN raw.devices
                          \/ dv \notin DOMAIN raw.states[e[2]].targets
    IN  IF "transitions" \notin DOMAIN raw \/ \E e \in edges : raises(e)
        THEN "KeyError"
        ELSE IF (\E o \in DOMAIN tr : o \notin DOMAIN raw.states)
                \/ \E e \in edges : wrong(e)
             THEN "bad" ELSE "ok"

\* origins and destinations are declared states, no edge from a state to
\* itself, the devices of a sequence are declared and are targets of the
\* destination; an undeclared destination is logged and then looked up
check_transitions(raw) ==
    LET tr == IF "transitions" \in DOMAIN raw THEN raw.transitions ELSE <<>>
        edges == {<<o, d>> \in (DOMAIN tr) \X
                               (UNION {DOMAIN tr[o] : o \in DOMAIN tr}) :
                     d \in DOMAIN tr[o]}
        devs(e) == SeqDevices(tr[e[1]][e[2]])
        raises(e) == \/ e[2] \notin DOMAIN raw.states
                     \/ devs(e) # {} /\ "targets" \notin DOMAIN raw.states[e[2]]
        wrong(e) == \/ e[1] = e[2]
                    \/ \E dv \in devs(e) :
                          \/ dv \notin DOMAIN raw.devices
                          \/ dv \notin DOMAIN raw.states[e[2]].targets
    IN  IF "transitions" \notin DOMAIN raw \/ \E e \in edges : raises(e)
        THEN "KeyError"
        ELSE IF (\E o \in DOMAIN tr : o \notin DOMAIN raw.states)
                \/ \E e \in edges : wrong(e)
             THEN "bad" ELSE "ok"

\* ConfigManager.check_config: the checks in order, the first that fails
\* decides
check_config(raw) ==
    LET checks == <<check_root_mandatory(raw), check_init_state(raw),
                    check_devices(raw), check_states(raw), check_limits(raw),
                    check_transitions(raw)>>
        failed == {i \in 1..Len(checks) :
                      /\ \A j \in 1..(i - 1) : checks[j] = "ok"
                      /\ checks[i] # "ok"}
    IN  IF failed = {} THEN "ok" ELSE checks[CHOOSE i \in failed : TRUE]

\* the checks that logged an error: check_config stops at the first check
\* that fails, so the checks after it do not run
CheckNames == <<"root_mandatory", "init_state", "devices", "states", "limits",
                "transitions">>

ChecksRun(results) ==
    {i \in 1..Len(results) : \A j \in 1..(i - 1) : results[j] = "ok"}

reported_errors(raw) ==
    LET checks == <<check_root_mandatory(raw), check_init_state(raw),
                    check_devices(raw), check_states(raw), check_limits(raw),
                    check_transitions(raw)>>
    IN  {CheckNames[i] : i \in {j \in ChecksRun(checks) : checks[j] # "ok"}}

NoConfig == [name |-> ""]
NoReach == [origin |-> "", result |-> {}]

\* ConfigManager.__init__, line 22: self.ok = self.check_config()
CheckConfig ==
    /\ cfg_pc = "loaded"
    /\ LET r == check_config(raw_config) IN
        /\ cfg_ok' = (r = "ok")
        /\ cfg_errors' = reported_errors(raw_config)
        /\ cfg_pc' = CASE r = "ok" -> "checked"
                       [] r = "bad" -> "invalid"
                       [] OTHER -> "crashed"
    /\ UNCHANGED <<engVars, devVars, callVars, supVars, drvVars, calls, cntVars,
                   raw_config, gov_transitions, reach, disk>>

\* main.py line 281: Governor(name, config) for a configuration that is ok
Construct ==
    /\ cfg_pc = "checked"
    /\ gov_transitions' = ParseTransitions(raw_config.transitions,
                                           raw_config.init_state)
    /\ cfg_pc' = "built"
    /\ UNCHANGED <<engVars, devVars, callVars, supVars, drvVars, calls, cntVars,
                   raw_config, cfg_ok, reach, cfg_errors, disk>>

\* main.py line 459: governor.reachable_states(state_name) for a declared
\* state
Query(o) ==
    /\ cfg_pc = "built"
    /\ o \in DOMAIN raw_config.states
    /\ reach' = [origin |-> o, result |-> ReachableIn(gov_transitions, o)]
    /\ UNCHANGED <<engVars, devVars, callVars, supVars, drvVars, calls, cntVars,
                   raw_config, cfg_pc, cfg_ok, gov_transitions, cfg_errors,
                   disk>>

-----------------------------------------------------------------------------
(* Edits of the configuration of a running governor.  Target, State and    *)
(* Device hold references into ConfigManager._raw_config, so an edit       *)
(* changes raw_config in place; ConfigManager.commit writes raw_config to  *)
(* the file.                                                                *)

LIMIT_LOW == 0
LIMIT_HIGH == 1

\* a file that open(filename, 'w') has emptied and the dump did not fill
Truncated == [name |-> "truncated"]

\* Variants of the code, each with one check or one step left out
LimitsInvalid_none(lim) == FALSE
Commit_none(raw, io, old) == old

\* set_state_device_limit, lines 612-615: the new pair
NewLimits(old, limit, value) ==
    IF limit = LIMIT_LOW THEN <<value, old[2]>> ELSE <<old[1], value>>

\* set_state_device_limit, line 617: new_limits[0] > new_limits[1]
LimitsInvalid(lim) == lim[1] > lim[2]

\* ConfigManager.commit: the file after the call.  The write can fail
\* (OSError): the file is then as it was, or emptied by open(..., 'w').
Commit(raw, io, old) ==
    CASE io = "ok" -> raw
      [] io = "kept" -> old
      [] OTHER -> Truncated

IoOutcomes == {"ok", "kept", "emptied"}

\* the result of an edit: what was asked, what the call returned (or
\* raised), whether commit was called, and the value before the call
EditRet(op, st, args, commit, old) ==
    [op |-> op, status |-> st, args |-> args, commit |-> commit, old |-> old]

\* Governor.set_state_device_limit(state, device, limit, value)
SetStateDeviceLimit(s, d, limit, value) ==
    /\ cfg_pc = "built"
    /\ s \in DOMAIN raw_config.states
    /\ d \in DOMAIN StateTargets(raw_config.states[s])
    /\ LET old == raw_config.states[s].targets[d].limits
           new == NewLimits(old, limit, value)
           args == <<s, d, limit, value>>
       IN  IF LimitsInvalid(new)
           THEN /\ ret' = EditRet("limit", "False", args, "none", old)
                /\ UNCHANGED <<raw_config, disk>>
           ELSE \E io \in IoOutcomes :
                  /\ raw_config' =
                        [raw_config EXCEPT !.states[s].targets[d].limits = new]
                  /\ disk' = Commit(raw_config', io, disk)
                  /\ ret' = IF io = "ok"
                            THEN EditRet("limit", "True", args, "ok", old)
                            ELSE EditRet("limit", "OSError", args, "failed", old)
    /\ UNCHANGED <<engVars, devVars, callVars, supVars, mpc, mcmd,
                   active_governor, worker_q, calls, cntVars, cfg_pc, cfg_ok,
                   gov_transitions, reach, cfg_errors>>

\* Governor.set_device_position(device, position, value); value NoValue is
\* None
SetDevicePosition(d, p, value) ==
    /\ cfg_pc = "built"
    /\ d \in DOMAIN raw_config.devices
    /\ "positions" \in DOMAIN raw_config.devices[d]
    /\ LET old == raw_config.devices[d].positions
           args == <<d, p, value>>
       IN  IF value # NoValue
           THEN \E io \in IoOutcomes :
                  /\ raw_config' =
                        [raw_config EXCEPT !.devices[d].positions =
                            [q \in (DOMAIN old) \cup {p} |->
                                IF q = p THEN value ELSE old[q]]]
                  /\ disk' = Commit(raw_config', io, disk)
                  /\ ret' = IF io = "ok"
                            THEN EditRet("position", "True", args, "ok", old)
                            ELSE EditRet("position", "OSError", args, "failed",
                                         old)
           ELSE /\ ret' = EditRet("position", "True", args, "none", old)
                /\ UNCHANGED <<raw_config, disk>>
    /\ UNCHANGED <<engVars, devVars, callVars, supVars, mpc, mcmd,
                   active_governor, worker_q, calls, cntVars, cfg_pc, cfg_ok,
                   gov_transitions, reach, cfg_errors>>

-----------------------------------------------------------------------------
(* Specifications *)

InitCfgNone ==
    /\ raw_config = NoConfig
    /\ cfg_pc = "none"
    /\ cfg_ok = FALSE
    /\ gov_transitions = <<>>
    /\ reach = NoReach
    /\ cfg_errors = {}
    /\ disk = NoConfig

\* Governor.__init__ for every governor, threads at rest
InitGovernors ==
    /\ current_state = [g \in Govs |-> init_state(g)]
    /\ next_state = [g \in Govs |-> init_state(g)]
    /\ abort_transition = [g \in Govs |-> FALSE]
    /\ target = [g \in Govs |-> [d \in Devs(g) |-> NoTarget]]
    /\ queue = [g \in Govs |-> <<>>]
    /\ worker_lock = [g \in Govs |-> "free"]
    /\ positions = [g \in Govs |-> [d \in Devs(g) |-> CfgPositions(g, d)]]
    /\ connected = [g \in Govs |-> [d \in Devs(g) |-> TRUE]]
    /\ pc = [c \in Callers |-> "idle"]
    /\ cgov = [c \in Callers |-> "G1"]
    /\ cdest = [c \in Callers |-> "Off"]
    /\ origin = [c \in Callers |-> "Off"]
    /\ step = [c \in Callers |-> 0]
    /\ sub = [c \in Callers |-> 0]
    /\ moved = [c \in Callers |-> {}]
    /\ entry = [c \in Callers |-> STATUS_IDLE]
    /\ spc = [g \in Govs |-> "get"]
    /\ sev = [g \in Govs |-> ""]
    /\ stopped = [g \in Govs |-> {}]
    /\ snap = [g \in Govs |-> Snapshot(init_state(g))]
    /\ mpc = "idle"
    /\ mcmd = NoCmd
    /\ active_governor = "G2"
    /\ worker_q = <<>>
    /\ ret = NoRet
    /\ calls = [g \in Govs |-> NoCalls]
    /\ nenv = 0

\* One enabled governor (G1) used through do_transition and abort, its
\* motor homed
Init ==
    /\ InitGovernors
    /\ InitCfgNone
    /\ status = [g \in Govs |-> STATUS_IDLE]
    /\ homed = [g \in Govs |-> [d \in Devs(g) |-> TRUE]]

Next ==
    \/ \E dest \in States("G1") : Call("w1", "G1", dest)
    \/ Transition("w1")
    \/ Supervisor("G1")
    \/ Callback("G1")
    \/ Abort("G1")

Spec == Init /\ [][Next]_vars

\* The driver with two governors, G2 active: the state GovernorDriver.__init__
\* leaves (set_enabled(False) on every governor but the active one).  The
\* devices of G2 and G3 are dummies, which are always healthy: the event
\* threads find nothing to do.
RegGovs == {"G2", "G3"}

InitReg ==
    /\ InitGovernors
    /\ InitCfgNone
    /\ status = [g \in Govs |-> IF g = "G3" THEN STATUS_DISABLED ELSE STATUS_IDLE]
    /\ homed = [g \in Govs |-> [d \in Devs(g) |-> TRUE]]

NextReg ==
    \/ \E n \in RegGovs : WriteConfigSel(n)
    \/ \E g \in RegGovs : WriteGovAbort(g)
    \/ \E g \in RegGovs : \E v \in States(g) : WriteGo(g, v)
    \/ WorkerGet("w1")
    \/ Transition("w1")
    \/ \E g \in RegGovs : SScan(g)
    \/ SetEnabled

SpecReg == InitReg /\ [][NextReg]_vars

\* Two threads call do_transition of G1 concurrently
NextLock ==
    \/ \E c \in Callers, dest \in States("G1") : Call(c, "G1", dest)
    \/ \E c \in Callers : Transition(c)

SpecLock == Init /\ [][NextLock]_vars

\* Configuration files with the states A, B and C, one motor, and any table
\* of transitions over the states; the initial state is A, or the
\* undeclared X
CfgStates == {"A", "B", "C"}

CfgMotor == [type |-> "Motor", name |-> "d1", timeout |-> 1, pv |-> "pv1",
             tolerance |-> 0, positions |-> ("In" :> 1)]

CfgTarget == [target |-> "In", limits |-> <<0, 0>>]

CfgSequences == {<< <<"d1">> >>}

CfgTables ==
    UNION {[O -> UNION {[D -> CfgSequences] : D \in SUBSET CfgStates}] :
              O \in SUBSET CfgStates}

InitCfg ==
    /\ InitGovernors
    /\ status = [g \in Govs |-> STATUS_IDLE]
    /\ homed = [g \in Govs |-> [d \in Devs(g) |-> TRUE]]
    /\ \E i \in {"A", "X"}, tr \in CfgTables :
          raw_config = [name |-> "cfg", init_state |-> i,
                        devices |-> ("d1" :> CfgMotor),
                        states |-> [s \in CfgStates |->
                                       [targets |-> ("d1" :> CfgTarget)]],
                        transitions |-> tr]
    /\ cfg_pc = "loaded"
    /\ cfg_ok = FALSE
    /\ gov_transitions = <<>>
    /\ reach = NoReach
    /\ cfg_errors = {}
    /\ disk = raw_config

NextCfg ==
    \/ CheckConfig
    \/ Construct
    \/ \E o \in CfgStates : Query(o)

SpecCfg == InitCfg /\ [][NextCfg]_vars

\* A configuration file with the states A and B, one motor with a target in
\* each state, and any limits; the governor built from it is then edited
\* through set_state_device_limit and set_device_position
EditStates == {"A", "B"}

InitEdit ==
    /\ InitGovernors
    /\ status = [g \in Govs |-> STATUS_IDLE]
    /\ homed = [g \in Govs |-> [d \in Devs(g) |-> TRUE]]
    /\ \E lim \in [EditStates -> Vals \X Vals] :
          raw_config = [name |-> "cfg", init_state |-> "A",
                        devices |-> ("d1" :> CfgMotor),
                        states |-> [s \in EditStates |->
                                       [targets |-> ("d1" :>
                                           [target |-> "In", limits |-> lim[s]])]],
                        transitions |-> ("A" :> ("B" :> << <<"d1">> >>))]
    /\ cfg_pc = "loaded"
    /\ cfg_ok = FALSE
    /\ gov_transitions = <<>>
    /\ reach = NoReach
    /\ cfg_errors = {}
    /\ disk = raw_config

NextEdit ==
    \/ CheckConfig
    \/ Construct
    \/ \E s \in EditStates, limit \in {LIMIT_LOW, LIMIT_HIGH}, v \in Vals :
          SetStateDeviceLimit(s, "d1", limit, v)
    \/ \E v \in Vals \cup {NoValue} : SetDevicePosition("d1", "In", v)

SpecEdit == InitEdit /\ [][NextEdit]_vars

\* Configuration files with the states A (a target for the motor d1) and B
\* (a target for the dummy device d3), and a table of at most MaxEdges
\* transitions between A, B and the undeclared X, each moving d1, d3 or the
\* undeclared d2; the initial state is A, or the undeclared X
TNames == {"A", "B", "X"}

TSequences == {<< <<"d1">> >>, << <<"d2">> >>, << <<"d3">> >>}

CfgDummy == [type |-> "Device", name |-> "d3", timeout |-> 1]

TEdgeSets == {E \in SUBSET (TNames \X TNames) : Cardinality(E) <= MaxEdges}

\* the table with the edges E, the edge e moving seq[e]
TTable(E, seq) ==
    [o \in {e[1] : e \in E} |->
        [d \in {e[2] : e \in {x \in E : x[1] = o}} |-> seq[<<o, d>>]]]

InitCfgT ==
    /\ InitGovernors
    /\ status = [g \in Govs |-> STATUS_IDLE]
    /\ homed = [g \in Govs |-> [d \in Devs(g) |-> TRUE]]
    /\ \E i \in {"A", "X"}, E \in TEdgeSets :
        \E seq \in [E -> TSequences] :
          raw_config = [name |-> "cfg", init_state |-> i,
                        devices |-> ("d1" :> CfgMotor) @@ ("d3" :> CfgDummy),
                        states |-> ("A" :> [targets |-> ("d1" :> CfgTarget)])
                                   @@ ("B" :> [targets |-> ("d3" :> CfgTarget)]),
                        transitions |-> TTable(E, seq)]
    /\ cfg_pc = "loaded"
    /\ cfg_ok = FALSE
    /\ gov_transitions = <<>>
    /\ reach = NoReach
    /\ cfg_errors = {}
    /\ disk = raw_config

NextCfgT ==
    \/ CheckConfig
    \/ Construct
    \/ \E o \in {"A", "B"} : Query(o)

SpecCfgT == InitCfgT /\ [][NextCfgT]_vars

\* A driver with the two configurations of the plant, the position Out of
\* motorA synchronized: position writes to either governor, and transitions
\* of G1
SyncGovs == {"G1", "G4"}

NextSync ==
    \/ \E g \in SyncGovs, p \in {"In", "Out"}, v \in Vals :
          WriteDevPos(SyncGovs, g, "motorA", p, v)
    \/ \E dest \in States("G1") : Call("w1", "G1", dest)
    \/ Transition("w1")

SpecSync == Init /\ [][NextSync]_vars

\* G1 with its event thread and one caller, no device callback and no abort
\* command: the only events are those the transition's own device calls
\* raise, and the scan of the event thread finds every device healthy.  The
\* thread that runs do_transition is scheduled until the call returns.
NextLive ==
    \/ \E dest \in States("G1") : Call("w1", "G1", dest)
    \/ Transition("w1")
    \/ SGet("G1") \/ SForce("G1") \/ SScan("G1")

SpecLive == Init /\ [][NextLive]_vars /\ WF_vars(Transition("w1"))

\* G1 with healthy devices: commands, abort requests and the live value of
\* the motor leaving its band.  The event thread is scheduled again and
\* again: _worker is a thread of its own that loops on queue.get(timeout=0.5)
\* for as long as the governor runs, and the thread that runs do_transition
\* is scheduled until the call returns.
NextSup ==
    \/ \E dest \in States("G1") : Call("w1", "G1", dest)
    \/ Transition("w1")
    \/ SGet("G1") \/ SForce("G1") \/ SScan("G1")
    \/ \E d \in Devs("G1"), v \in Vals : ValueChanged("G1", d, v)
    \/ Abort("G1")

SpecSup ==
    /\ Init /\ [][NextSup]_vars
    /\ WF_vars(Supervisor("G1")) /\ WF_vars(Transition("w1"))

\* G1 right after construction: Device.__init__ leaves _homed False until the
\* motor's first status callback arrives.
InitFault ==
    /\ InitGovernors
    /\ InitCfgNone
    /\ status = [g \in Govs |-> STATUS_IDLE]
    /\ homed = [g \in Govs |-> [d \in Devs(g) |-> DevType(g, d) # "Motor"]]

NextFault ==
    \/ \E dest \in States("G1") : Call("w1", "G1", dest)
    \/ Transition("w1")
    \/ Supervisor("G1")
    \/ \E d \in Devs("G1"), h \in BOOLEAN : StatusChanged("G1", d, h)

\* the event thread is scheduled again and again
SpecFault == InitFault /\ [][NextFault]_vars /\ WF_vars(Supervisor("G1"))

\* G5 with a thread that calls do_transition again and again, the valve's
\* connection callback and the event thread.  The thread that runs
\* do_transition is scheduled until the call returns.
NextRaise ==
    \/ \E dest \in States("G5") : Call("w1", "G5", dest)
    \/ Transition("w1")
    \/ Supervisor("G5")
    \/ \E conn \in BOOLEAN : ConnChanged("G5", "valve", conn)

SpecRaise == Init /\ [][NextRaise]_vars /\ WF_vars(Transition("w1"))

\* One motor of G1 with any setpoint, limits (lower <= upper) and tolerance,
\* its readback callback, its target setter, and the event thread that takes
\* the events
BandVals == -2 .. 3

InitBand ==
    /\ InitGovernors
    /\ status = [g \in Govs |-> STATUS_IDLE]
    /\ homed = [g \in Govs |-> [d \in Devs(g) |-> TRUE]]
    /\ \E sp \in 0..1, lo \in {-1, 0}, up \in {0, 1}, tol \in 0..1 :
          raw_config = MotorCfg(sp, lo, up, tol)
    /\ cfg_pc = "built"
    /\ cfg_ok = TRUE
    /\ gov_transitions = <<>>
    /\ reach = NoReach
    /\ cfg_errors = {}
    /\ disk = raw_config

NextBand ==
    \/ \E v \in BandVals : MotorValueChanged("G1", v)
    \/ \E s \in {NoTarget, "On"}, v \in BandVals : MotorSetTarget("G1", s, v)
    \/ SGet("G1") \/ SForce("G1") \/ SScan("G1")

SpecBand == InitBand /\ [][NextBand]_vars

\* Device.positions (config.get('positions', {})) and Valve.positions, which
\* is fixed to Open and Closed whatever the configuration says
DevicePositions(dev) ==
    CASE dev.type = "Valve" -> {"Open", "Closed"}
      [] "positions" \in DOMAIN dev -> DOMAIN dev.positions
      [] OTHER -> {}

\* A configuration file with one valve, declared with or without a
\* 'positions' entry, the states Off, On and Half with any target of the
\* valve in On and Half, and the transitions from Off
CfgValve == [type |-> "Valve", name |-> "v1", timeout |-> 1, pv |-> "pv1"]

ValveTargets == {"Open", "Closed", "Half"}

InitValve ==
    /\ InitGovernors
    /\ status = [g \in Govs |-> STATUS_IDLE]
    /\ homed = [g \in Govs |-> [d \in Devs(g) |-> TRUE]]
    /\ \E i \in {"Off", "X"}, t1 \in ValveTargets, t2 \in ValveTargets,
          dev \in {CfgValve,
                   CfgValve @@ [positions |-> ("Open" :> 1) @@ ("Closed" :> 0)],
                   CfgValve @@ [positions |-> ("Open" :> 1) @@ ("Half" :> 0)]} :
          raw_config = [name |-> "cfg", init_state |-> i,
                        devices |-> ("v1" :> dev),
                        states |-> ("Off" :> [name |-> "Off"])
                                   @@ ("On" :> [targets |-> ("v1" :>
                                           [target |-> t1, limits |-> <<0, 0>>])])
                                   @@ ("Half" :> [targets |-> ("v1" :>
                                           [target |-> t2, limits |-> <<0, 0>>])]),
                        transitions |-> ("Off" :> (("On" :> << <<"v1">> >>)
                                          @@ ("Half" :> << <<"v1">> >>)))]
    /\ cfg_pc = "loaded"
    /\ cfg_ok = FALSE
    /\ gov_transitions = <<>>
    /\ reach = NoReach
    /\ cfg_errors = {}
    /\ disk = raw_config

NextValve ==
    \/ CheckConfig
    \/ Construct
    \/ \E o \in {"Off", "On", "Half"} : Query(o)

SpecValve == InitValve /\ [][NextValve]_vars

\* A bench governor (G2, enabled) with commands and abort requests; the
\* loop of the event thread's _notify_observer runs state by state, between
\* the steps of the thread that runs do_transition.
NextObs ==
    \/ \E dest \in States("G2") : Call("w1", "G2", dest)
    \/ Transition("w1")
    \/ SGet("G2") \/ SForceN("G2") \/ SNotify("G2") \/ SScan("G2")
    \/ Abort("G2")

SpecObs == Init /\ [][NextObs]_vars

-----------------------------------------------------------------------------
(* Properties *)

\* caller c is inside the body of do_transition: Status has been set to Busy
\* and the lock is not yet released
InBody(c) == pc[c] \notin {"idle", "lock"}

\* the positions after _do_transition has returned
FinPcs == {"finchk", "finset", "finclear", "unlock"}

LogOf(g) == calls[g].log
Logged(g, kind) == {i \in 1..Len(LogOf(g)) : LogOf(g)[i][1] = kind}

\* the step is one of caller c
StepOf(c) == pc'[c] # pc[c]

\* the step adds nothing to the log of governor g
NothingLogged(g) == calls'[g].log = calls[g].log \/ calls'[g] = NoCalls

\* C1: for every governor, at most one do_transition execution is inside
\* the body (between setting Status Busy and the release of the lock) at any
\* time, however many threads call do_transition.
C1_OneTransitionAtATime ==
    \A g \in Govs : Cardinality({c \in Callers : InBody(c) /\ cgov[c] = g}) <= 1

\* one caller is in the body while the other waits for the lock
C1_Witness ==
    \E c1, c2 \in Callers :
        /\ c1 # c2 /\ cgov[c1] = cgov[c2]
        /\ pc[c1] = "move" /\ pc[c2] = "lock"

\* the step logs a move, a position write or a set_state of governor g
Acts(g) ==
    \E i \in (Len(calls[g].log) + 1)..Len(calls'[g].log) :
        calls'[g].log[i][1] \in {"move", "commit", "set_state"}

\* C2: a do_transition call that found the governor Disabled issues no
\* move, writes no position and does not set the state, as long as the
\* governor is not the active one.
C2_DisabledDoesNothing ==
    [][\A c \in Callers :
          (StepOf(c) /\ InBody(c) /\ entry[c] = STATUS_DISABLED
                     /\ active_governor # cgov[c])
              => ~Acts(cgov[c])]_vars

\* C3: when the driver is at rest (no request being served, no command
\* queued or running), the active governor is enabled and every other
\* governor is Disabled.
C3_OnlyActiveEnabled ==
    (mpc = "idle" /\ worker_q = <<>> /\ \A c \in Callers : pc[c] = "idle")
        => \A g \in RegGovs : Enabled(g) <=> g = active_governor

\* _do_transition of caller c has just returned, it has committed its
\* destination, and no other thread has reset the state meanwhile
Committed(c) ==
    /\ pc[c] = "finchk"
    /\ \E i \in Logged(cgov[c], "set_state") :
          LogOf(cgov[c])[i] = <<"set_state", cdest[c]>>
    /\ ~HasReset(cgov[c])

\* C4 as the specification states it: after a successful transition to D,
\* every device with a target in D holds that target and every other device
\* holds none.
C4_AllTargetsOfDestination ==
    \A c \in Callers :
        Committed(c) =>
            \A d \in Devs(cgov[c]) :
                target[cgov[c]][d] =
                    IF d \in DOMAIN Targets(cgov[c], cdest[c])
                    THEN cdest[c] ELSE NoTarget

\* C4: after a successful transition to a destination D other than the
\* initial state, every device that the sequence of the transition names
\* holds D's target and every other device holds none; after a successful
\* transition to the initial state every device holds none.
C4_TargetsOfMovedDevices ==
    \A c \in Callers :
        Committed(c) =>
            LET g == cgov[c]
                seq == Transitions(g)[origin[c]][cdest[c]]
            IN  \A d \in Devs(g) :
                    target[g][d] =
                        IF cdest[c] # init_state(g) /\ d \in SeqDevices(seq)
                        THEN cdest[c] ELSE NoTarget

\* a transition to Park has committed: Park has a target for motorC, which
\* the sequence does not name
C4_Witness ==
    \E c \in Callers : Committed(c) /\ cdest[c] = "Park" /\ origin[c] = "On"

\* C5: when do_transition returns after the event thread has reset the state
\* during the call (an event, or a scan that found an unhealthy device), the
\* governor is in its initial state and no device holds a target.
C5_ResetLeavesInit ==
    \A c \in Callers :
        (pc[c] = "unlock" /\ calls[cgov[c]].reset \in {"event", "scan"})
            => /\ current_state[cgov[c]] = init_state(cgov[c])
               /\ next_state[cgov[c]] = init_state(cgov[c])
               /\ \A d \in Devs(cgov[c]) : target[cgov[c]][d] = NoTarget

\* the item of sequence seq that names device d
ItemOf(seq, d) ==
    CHOOSE i \in 1..Len(seq) : \E j \in 1..Len(seq[i]) : seq[i][j] = d

\* entry e is in the log before position p
Before(g, p, e) == \E q \in 1..(p - 1) : LogOf(g)[q] = e

\* C6: a wait() on a device comes after the move() of every device of the
\* same step, and a move() of a step comes after the wait() and the
\* assignment of the target of every device of the step before.
C6_StepsInOrder ==
    \A c \in Callers :
        (InBody(c) /\ Logged(cgov[c], "move") # {}) =>
            LET g == cgov[c]
                log == LogOf(g)
                seq == Transitions(g)[origin[c]][cdest[c]]
                item(p) == ItemOf(seq, log[p][2])
                devs(i) == {seq[i][j] : j \in 1..Len(seq[i])}
            IN  \A p \in 1..Len(log) :
                    /\ log[p][1] = "wait" =>
                          \A d \in devs(item(p)) : Before(g, p, <<"move", d>>)
                    /\ (log[p][1] = "move" /\ item(p) > 1) =>
                          \A d \in devs(item(p) - 1) :
                              /\ Before(g, p, <<"wait", d>>)
                              /\ Before(g, p, <<"assign", d>>)

\* every device of Off -> On (one device, then two at once) has been moved,
\* waited for and assigned
C6_Witness ==
    \E c \in Callers :
        /\ pc[c] = "commitchk" /\ origin[c] = "Off" /\ cdest[c] = "On"
        /\ Cardinality(Logged(cgov[c], "move")) = 3
        /\ Cardinality(Logged(cgov[c], "wait")) = 3
        /\ Cardinality(Logged(cgov[c], "assign")) = 3

\* C7: for a governor built from a configuration that check_config
\* accepts, reachable_states(O) of a declared state O is O and the keys of
\* transitions[O], and it contains the initial state when O is not the
\* initial state.
C7_ReachableFromEveryState ==
    (cfg_pc = "built" /\ reach # NoReach) =>
        /\ reach.result # KeyError
        /\ reach.origin \in DOMAIN gov_transitions
        /\ reach.result = {reach.origin} \cup DOMAIN gov_transitions[reach.origin]
        /\ reach.origin # raw_config.init_state
              => raw_config.init_state \in reach.result

\* the call of caller c was rejected: _do_transition returned before
\* 'Transition [origin] -> [dest]' was logged
Rejected(c) == pc[c] \in FinPcs /\ Logged(cgov[c], "transition") = {}

\* caller c is at the check of line 700 with an unreachable destination
Unreachable(c) ==
    /\ pc[c] = "reach"
    /\ cdest[c] \notin reachable_states(cgov[c], current_state[cgov[c]])

\* C8: a do_transition whose destination is not reachable from the current
\* state returns at the check, and neither that step nor the rest of the
\* call moves a device, writes a position, or changes current_state,
\* next_state or a device's target.
C8_UnreachableRejected ==
    [][\A c \in Callers :
          (StepOf(c) /\ (Unreachable(c) \/ Rejected(c))) =>
              /\ pc'[c] \in FinPcs \cup {"idle"}
              /\ NothingLogged(cgov[c])
              /\ UNCHANGED <<current_state, next_state, target, positions>>]_vars

\* do_transition("Park") called in state Off has returned
C8_Witness ==
    \E c \in Callers :
        /\ pc[c] = "unlock" /\ Rejected(c)
        /\ origin[c] = "Off" /\ cdest[c] = "Park"

\* caller c is at the check of line 711 with origin = dest, or has returned
\* from there
SameStateReturn(c) ==
    /\ origin[c] = cdest[c]
    /\ \/ pc[c] = "next"
       \/ pc[c] \in FinPcs /\ LogOf(cgov[c]) = << <<"transition", cdest[c]>> >>

\* C9: on the way out of a do_transition call that was rejected or found
\* the governor in dest already, the only Status the call writes is the one
\* it found when it began.
C9_StatusAsBefore ==
    [][\A c \in Callers :
          (StepOf(c) /\ pc[c] \in FinPcs
                     /\ (Rejected(c) \/ SameStateReturn(c)))
              => status'[cgov[c]] \in {status[cgov[c]], entry[c]}]_vars

\* C10: do_transition(dest) that finds the governor in dest returns after
\* setting next_state: no step of the call moves, waits for or assigns a
\* device, writes a position, or changes current_state or a device's target.
C10_SameStateNoOp ==
    [][\A c \in Callers :
          (StepOf(c) /\ SameStateReturn(c)) =>
              /\ pc'[c] \in FinPcs \cup {"idle"}
              /\ \/ calls'[cgov[c]] = NoCalls
                 \/ calls'[cgov[c]].log = << <<"transition", cdest[c]>> >>
              /\ UNCHANGED <<current_state, target, positions>>]_vars

\* do_transition("On") called in state On (after a transition to On) has
\* returned
C10_Witness ==
    \E c \in Callers :
        /\ pc[c] = "unlock" /\ SameStateReturn(c)
        /\ cdest[c] = "On" /\ current_state[cgov[c]] = "On"

\* the limits of state s, device d in the configuration raw
LimitsOf(raw, s, d) == raw.states[s].targets[d].limits

\* the last request was set_state_device_limit, and it asked for a pair with
\* low > high
AskedInvalid ==
    /\ ret.op = "limit"
    /\ LET new == IF ret.args[3] = LIMIT_LOW
                  THEN <<ret.args[4], ret.old[2]>>
                  ELSE <<ret.old[1], ret.args[4]>>
       IN  new[1] > new[2]

\* C11: in a governor built from a configuration that check_config accepted,
\* every target of every state has low <= high, whatever limit edits were
\* made; an edit that asks for low > high returns False, leaves the limits
\* as they were and does not commit.
C11_LimitsOrdered ==
    /\ cfg_pc \in {"checked", "built"} =>
          \A s \in DOMAIN raw_config.states :
              \A d \in DOMAIN StateTargets(raw_config.states[s]) :
                  LimitsOf(raw_config, s, d)[1] <= LimitsOf(raw_config, s, d)[2]
    /\ AskedInvalid =>
          /\ ret.status = "False"
          /\ ret.commit = "none"
          /\ LimitsOf(raw_config, ret.args[1], ret.args[2]) = ret.old

\* an edit that asked for low > high has returned
C11_Witness == AskedInvalid /\ ret.status = "False"

\* C12: after set_state_device_limit(S, D, Low, v) has returned True, the
\* file holds the configuration that is in memory, with limits[0] = v for
\* (S, D) and limits[1] as before; the same for High.
C12_LimitRoundTrip ==
    (ret.op = "limit" /\ ret.status = "True") =>
        LET s == ret.args[1]
            d == ret.args[2]
            i == IF ret.args[3] = LIMIT_LOW THEN 1 ELSE 2
        IN  /\ disk = raw_config
            /\ LimitsOf(disk, s, d)[i] = ret.args[4]
            /\ LimitsOf(disk, s, d)[3 - i] = ret.old[3 - i]

\* an edit that changed the low limit has returned True
C12_Witness ==
    /\ ret.op = "limit" /\ ret.status = "True"
    /\ ret.args[3] = LIMIT_LOW /\ ret.args[4] # ret.old[1]

\* the step is set_enabled's check, made of governor g while it is Busy
BusyAtCheck(g) == mpc = "se_chk" /\ mpc' # "se_chk" /\ mcmd.gov = g /\ Busy(g)

\* C13: set_enabled of a Busy governor returns without writing the Status;
\* when that is the disabling of the active governor during a switch, the
\* write returns failure and the active governor stays the same.
C13_BusyRejectsSwitch ==
    [][\A g \in RegGovs :
          BusyAtCheck(g) =>
              /\ mpc' = "idle"
              /\ status' = status
              /\ ~mcmd.enabled =>
                    /\ ret' = Ret("select", "False")
                    /\ active_governor' = active_governor]_vars

\* a switch was refused and the active governor is Busy
C13_Witness ==
    /\ mpc = "idle" /\ ret = Ret("select", "False")
    /\ Busy(active_governor)

\* C18: set_device_position with a missing value returns failure, leaves the
\* positions as they were and does not commit.
C18_MissingValueRejected ==
    (ret.op = "position" /\ ret.args[3] = NoValue) =>
        /\ ret.status = "False"
        /\ ret.commit = "none"
        /\ raw_config.devices[ret.args[1]].positions = ret.old

\* C19: an edit whose commit failed returns failure and leaves the limits or
\* positions in memory as they were before the call.
C19_FailedCommitRejected ==
    (ret.op \in {"limit", "position"} /\ ret.commit = "failed") =>
        /\ ret.status = "False"
        /\ ret.op = "limit" =>
              LimitsOf(raw_config, ret.args[1], ret.args[2]) = ret.old
        /\ ret.op = "position" =>
              raw_config.devices[ret.args[1]].positions = ret.old

\* C20: a write to a governor's Abort-Cmd puts one ABORT event on that
\* governor's queue and returns without an error.
C20_GovAbortEnqueues ==
    [][(ret' # ret /\ ret'.op = "gov_abort") =>
          /\ ret'.status = "True"
          /\ \E g \in RegGovs :
                queue' = [queue EXCEPT ![g] = Append(@, ABORT_EVENT)]]_vars

\* the edges of a table of transitions
EdgesOf(tr) == {<<o, d>> \in (DOMAIN tr) \X (UNION {DOMAIN tr[o] : o \in DOMAIN tr}) :
                   d \in DOMAIN tr[o]}

\* C14: in a configuration that check_config accepted, every transition
\* goes from a declared state to another declared state, and every device of
\* its sequence is declared and has a target in the destination state.
C14_AcceptedTransitions ==
    cfg_ok =>
        \A e \in EdgesOf(raw_config.transitions) :
            /\ e[1] \in DOMAIN raw_config.states
            /\ e[2] \in DOMAIN raw_config.states
            /\ e[1] # e[2]
            /\ \A i \in 1..Len(raw_config.transitions[e[1]][e[2]]) :
                  \A j \in 1..Len(raw_config.transitions[e[1]][e[2]][i]) :
                      LET dv == raw_config.transitions[e[1]][e[2]][i][j]
                      IN  /\ dv \in DOMAIN raw_config.devices
                          /\ dv \in DOMAIN raw_config.states[e[2]].targets

\* a configuration with the transitions A -> B and B -> A was accepted
C14_Witness ==
    /\ cfg_pc = "checked" /\ cfg_ok
    /\ EdgesOf(raw_config.transitions) = {<<"A", "B">>, <<"B", "A">>}

\* the checks that fail on the configuration raw, each run on its own
FailingChecks(raw) ==
    LET checks == <<check_root_mandatory(raw), check_init_state(raw),
                    check_devices(raw), check_states(raw), check_limits(raw),
                    check_transitions(raw)>>
    IN  {CheckNames[i] : i \in {j \in 1..Len(checks) : checks[j] # "ok"}}

\* C15: check_config reports the errors of every check that fails, not only
\* of the first one.
C15_AllErrorsReported ==
    cfg_pc \in {"invalid", "crashed"} =>
        /\ ~cfg_ok
        /\ FailingChecks(raw_config) \subseteq cfg_errors

\* C16: a position listed in the synchronization file has the same value in
\* every governor of the driver.
C16_SyncedPositionsEqual ==
    \A d \in DOMAIN SyncTargets : \A p \in SyncTargets[d] :
        \A g, h \in SyncGovs : positions[g][d][p] = positions[h][d][p]

\* no event of governor g is waiting or being handled
Quiet(g) == queue[g] = <<>> /\ spc[g] = "get" /\ sev[g] = ""

\* caller c has just entered do_transition(dest) on an Idle governor, dest
\* reachable and not the current state, no event pending
HappyStart(c) ==
    /\ pc[c] = "clear" /\ entry[c] = STATUS_IDLE
    /\ cdest[c] # current_state[cgov[c]]
    /\ cdest[c] \in reachable_states(cgov[c], current_state[cgov[c]])
    /\ Quiet(cgov[c])

\* an event was raised during the call that is about to return
EventSeen(g) == ~Quiet(g) \/ HasReset(g)

\* the call of c is about to return, in dest and Idle unless an event came
HappyEnd(c) ==
    /\ pc[c] = "unlock"
    /\ \/ EventSeen(cgov[c])
       \/ /\ current_state[cgov[c]] = cdest[c]
          /\ next_state[cgov[c]] = cdest[c]
          /\ status[cgov[c]] = STATUS_IDLE

\* the Status is Busy from the start of the body to the end of
\* _do_transition, and Idle otherwise
BusyThenIdle(c) ==
    status[cgov[c]] =
        IF pc[c] \in {"idle", "lock", "finclear", "unlock"}
        THEN STATUS_IDLE ELSE STATUS_BUSY

\* C17: a do_transition(dest) accepted from Idle, with dest reachable and not
\* the current state, eventually returns; unless an event was raised during
\* the call, the governor is then in dest (current_state = next_state = dest)
\* and the Status went Idle, Busy, Idle.
C17_HappyPath ==
    /\ \A c \in {"w1"} : HappyStart(c) ~> HappyEnd(c)
    /\ [](\A c \in {"w1"} : BusyThenIdle(c))

\* a transition from Off to On is about to return, and no event was raised
C17_Witness ==
    /\ pc["w1"] = "unlock" /\ ~EventSeen(cgov["w1"])
    /\ origin["w1"] = "Off" /\ cdest["w1"] = "On"
    /\ current_state[cgov["w1"]] = "On"

-----------------------------------------------------------------------------
(* Events and faults during a transition *)

\* the entries the step adds to the log of governor g
Added(g) ==
    {calls'[g].log[i] : i \in (Len(calls[g].log) + 1)..Len(calls'[g].log)}

\* the event thread has set the abort flag or written Fault during the call
\* of c, before the sequence step the call is at
HaltedBefore(c) ==
    /\ calls[cgov[c]].halted >= 0
    /\ step[c] > calls[cgov[c]].halted

\* C21: once the event thread has set the abort flag or written Status
\* Fault during a do_transition (after Status was set to Busy), no device of
\* a later step of the sequence receives move().
C21_NoMoveAfterHalt ==
    [][\A c \in Callers :
          (StepOf(c) /\ InBody(c) /\ HaltedBefore(c))
              => ~\E e \in Added(cgov[c]) : e[1] = "move"]_vars

\* C22: after a wait() of the call has timed out, the call does not assign
\* that device its target, moves no device and does not commit dest,
\* whatever the event thread does meanwhile.
C22_TimeoutSkipsRest ==
    [][\A c \in Callers :
          (StepOf(c) /\ InBody(c) /\ calls[cgov[c]].timedout # {})
              => \A e \in Added(cgov[c]) :
                    /\ e[1] \notin {"move", "set_state"}
                    /\ e[1] = "assign" => e[2] \notin calls[cgov[c]].timedout]_vars

\* governor g is Idle in a state other than the initial one, no do_transition
\* is running, and an event is waiting in the queue
IdleWithEvent(g) ==
    /\ status[g] = STATUS_IDLE
    /\ current_state[g] # init_state(g)
    /\ worker_lock[g] = "free"
    /\ \A c \in Callers : pc[c] = "idle"
    /\ queue[g] # <<>>

\* governor g is in its initial state and no device holds a target
ResetDone(g) ==
    /\ current_state[g] = init_state(g)
    /\ next_state[g] = init_state(g)
    /\ \A d \in Devs(g) : target[g][d] = NoTarget

\* C23: when governor G1 is Idle in a state other than the initial one, no
\* transition is running and an event (DISCONNECT, LIMITS_VIOLATED, TIMEOUT
\* or ABORT) is in the queue, the event thread eventually forces
\* current_state = next_state = init_state and every device's target to none.
C23_EventForcesInit == IdleWithEvent("G1") ~> ResetDone("G1")

\* the event thread has taken a LIMITS_VIOLATED event off the queue while the
\* governor is Idle in On with motorA monitored
C23_Witness ==
    /\ spc["G1"] = "force" /\ sev["G1"] = LIMITS_VIOLATED_EVENT
    /\ status["G1"] = STATUS_IDLE /\ current_state["G1"] = "On"
    /\ target["G1"]["motorA"] = "On"
    /\ worker_lock["G1"] = "free"

\* C29: the event thread, processing an ABORT event of G1, issues stop() to
\* every device whether or not a transition is running; with every device
\* healthy the Status never becomes Fault, and after the abort the Status is
\* eventually Idle.
C29_AbortStopsAll ==
    /\ [][(spc["G1"] = "force" /\ sev["G1"] = ABORT_EVENT
            /\ spc'["G1"] # "force") => stopped'["G1"] = Devs("G1")]_vars
    /\ [](Unhealthy("G1") = {} => status["G1"] # STATUS_FAULT)
    /\ (sev["G1"] = ABORT_EVENT) ~> (status["G1"] = STATUS_IDLE)

\* every device of G1 has received stop() while a transition was waiting
\* for a device
C29_Witness ==
    /\ stopped["G1"] = Devs("G1") /\ spc["G1"] = "scan"
    /\ pc["w1"] = "wait" /\ status["G1"] = STATUS_BUSY

\* C24: a snapshot the governor builds for its observer flags at most one
\* state active.
C24_OneActiveState ==
    \A g \in Govs : Cardinality(snap[g].active) <= 1

\* C25: whenever the Status of a governor is Fault and its event thread is
\* not in the middle of the scan that wrote it, the governor is in its
\* initial state.
C25_FaultMeansInit ==
    \A g \in Govs :
        (status[g] = STATUS_FAULT /\ spc[g] # "scanset")
            => current_state[g] = init_state(g)

\* C27: no step of a do_transition call replaces a Status Fault, written by
\* the event thread during the call, with Idle.
C27_FaultNotOverwritten ==
    [][\A c \in Callers :
          (StepOf(c) /\ InBody(c) /\ status[cgov[c]] = STATUS_FAULT)
              => status'[cgov[c]] # STATUS_IDLE]_vars

\* the call of c has left _do_transition through its last lines: the loop
\* over the sequence ran to its end
MovePhaseDone(c) ==
    /\ pc[c] \in FinPcs
    /\ origin[c] # cdest[c]
    /\ cdest[c] \in DOMAIN Transitions(cgov[c])[origin[c]]
    /\ step[c] > Len(Transitions(cgov[c])[origin[c]][cdest[c]])

\* C30: after a transition whose loop over the sequence ran to its end,
\* every device the sequence does not name holds no target, also a device
\* that is a key of the destination state's targets.
C30_UnnamedUnmonitored ==
    \A c \in Callers :
        MovePhaseDone(c) =>
            \A d \in Devs(cgov[c]) \
                    SeqDevices(Transitions(cgov[c])[origin[c]][cdest[c]]) :
                target[cgov[c]][d] = NoTarget

\* On -> Park has run to its end and is committed; motorC, a target of Park
\* and monitored in On, is not in the sequence
C30_Witness ==
    \E c \in Callers :
        /\ MovePhaseDone(c) /\ pc[c] = "unlock"
        /\ origin[c] = "On" /\ cdest[c] = "Park"
        /\ current_state[cgov[c]] = "Park"
        /\ "motorC" \in DOMAIN Targets(cgov[c], "Park")
        /\ target[cgov[c]]["motorA"] = "Park"

\* governor g is in Fault with every device healthy and no command running
FaultHealthy(g) ==
    /\ status[g] = STATUS_FAULT /\ Unhealthy(g) = {}
    /\ \A c \in Callers : pc[c] = "idle"

\* governor g has recovered, or a device is unhealthy again, or a command
\* has arrived
RecoveredOrDisturbed(g) ==
    \/ status[g] = STATUS_IDLE /\ current_state[g] = init_state(g)
    \/ Unhealthy(g) # {}
    \/ \E c \in Callers : pc[c] # "idle"

\* C26: when the Status of G1 is Fault and every device is healthy and stays
\* so, and no command arrives, the event thread eventually sets the Status
\* to Idle with the governor in its initial state; and no step of the event
\* thread takes the Status from Fault to Idle while a device is unhealthy.
C26_FaultRecovery ==
    /\ FaultHealthy("G1") ~> RecoveredOrDisturbed("G1")
    /\ [][(spc'["G1"] # spc["G1"] /\ status["G1"] = STATUS_FAULT
                                   /\ status'["G1"] = STATUS_IDLE)
            => Unhealthy("G1") = {}]_vars

\* the scan has just taken G1 from Fault to Idle, the motor homed again
C26_Witness ==
    /\ spc["G1"] = "scanset" /\ status["G1"] = STATUS_IDLE
    /\ Unhealthy("G1") = {} /\ nenv > 0

\* a device operation has raised in the do_transition call of c
Raised(c) ==
    /\ worker_lock[cgov[c]] = c
    /\ Logged(cgov[c], "raise") # {}

\* C28: when a device operation raises during a do_transition call (a valve
\* told to move to a target other than Open and Closed), the call still
\* returns and releases the lock; after the exception it commits nothing
\* (no step of the call changes current_state), and it does not leave the
\* Status Busy.
C28_RaiseIsCaught ==
    /\ \A c \in Callers :
          Raised(c) ~> (pc[c] = "idle" /\ worker_lock["G5"] = "free")
    /\ [][\A c \in Callers :
            (StepOf(c) /\ Raised(c))
                => /\ current_state'[cgov[c]] = current_state[cgov[c]]
                   /\ \A e \in Added(cgov[c]) : e[1] # "set_state"]_vars
    /\ [](\A c \in Callers :
            (Raised(c) /\ pc[c] \in {"finclear", "unlock"})
                => status[cgov[c]] # STATUS_BUSY)

\* a call to Half has raised and is about to return with Status Idle, the
\* governor still in Off
C28_Witness ==
    \E c \in Callers :
        /\ Raised(c) /\ pc[c] = "unlock" /\ cdest[c] = "Half"
        /\ status["G5"] = STATUS_IDLE /\ current_state["G5"] = "Off"

-----------------------------------------------------------------------------
(* The write-back of positions *)

\* the value of position p of device d after the write-back of caller c, when
\* every updateAfter target of the origin takes the value read (any is TRUE),
\* or only those for which a value was read
WrittenBack(c, d, p, any) ==
    LET g == cgov[c]
        tg == Targets(g, origin[c])
    IN  IF /\ d \in DOMAIN tg /\ tg[d].updateAfter /\ tg[d].target = p
           /\ (any \/ calls'[g].read[d] # NoValue)
        THEN calls'[g].read[d]
        ELSE positions[g][d][p]

\* the only step of a do_transition call that changes positions is the
\* write-back, made before any move and only in a call that passed the
\* check of line 700 with dest # origin; it gives every position the value WrittenBack names and
\* commits each position written
WriteBackOnly(any) ==
    \A c \in Callers :
        StepOf(c) =>
            LET g == cgov[c] IN
            IF pc[c] = "writeback"
            THEN /\ origin[c] # cdest[c]
                 /\ LogOf(g) = << <<"transition", cdest[c]>> >>
                 /\ \A d \in Devs(g) : \A p \in DOMAIN positions[g][d] :
                        positions'[g][d][p] = WrittenBack(c, d, p, any)
                 /\ \A d \in Devs(g) :
                        (<<"commit", d>> \in Added(g))
                            <=> positions'[g][d] # positions[g][d]
                                \/ (d \in DOMAIN calls'[g].read
                                    /\ calls'[g].read[d] # NoValue)
                 /\ Logged(g, "move") = {}
            ELSE positions' = positions

-----------------------------------------------------------------------------
(* Band monitoring *)

\* the step is a readback callback or a target assignment of the motor
MotorStep ==
    /\ ret'.op \in {"value", "assign", "move"}
    /\ spc' = spc
    /\ ret.op = "none" \/ ret' # ret \/ queue' # queue \/ target' # target

\* C32: a readback update or a target assignment of a Motor emits
\* LIMITS_VIOLATED if and only if a target is assigned and the value is below
\* setpoint + lower - tolerance or above setpoint + upper + tolerance; while
\* the target is none no value emits the event.
C32_BandMonitoring ==
    [][MotorStep =>
        LET t == raw_config.states["On"].targets["motorA"]
            sp == raw_config.devices["motorA"].positions["In"]
            tol == raw_config.devices["motorA"].tolerance
            v == ret'.status
        IN  (queue'["G1"] = Append(queue["G1"], LIMITS_VIOLATED_EVENT))
                <=> /\ target'["G1"]["motorA"] # NoTarget
                    /\ \/ v < sp + t.limits[1] - tol
                       \/ v > sp + t.limits[2] + tol]_vars

\* a value inside the band widened by the tolerance, but outside the limits
\* alone, has come while the target is assigned, and no event is queued
C32_Witness ==
    /\ ret.op = "value" /\ ret.status = 3 /\ target["G1"]["motorA"] = "On"
    /\ raw_config = MotorCfg(1, 0, 1, 1)
    /\ queue["G1"] = <<>> /\ spc["G1"] = "get"

-----------------------------------------------------------------------------
(* Invariants of the engine at rest *)

\* C33: a set_enabled call that succeeds leaves the governor with
\* current_state = next_state = init_state and no device holding a target,
\* its Status Idle after an enable and Disabled after a disable; a call that
\* fails changes nothing.
C33_SetEnabledResets ==
    [][/\ (mpc = "se_state" /\ mpc' # mpc) =>
            LET g == mcmd.gov IN
            /\ current_state'[g] = init_state(g)
            /\ next_state'[g] = init_state(g)
            /\ \A d \in Devs(g) : target'[g][d] = NoTarget
            /\ status'[g] = IF mcmd.enabled THEN STATUS_IDLE ELSE STATUS_DISABLED
       /\ (mpc = "se_chk" /\ mpc' = "idle") => UNCHANGED engVars]_vars

\* no thread is in do_transition of governor g
AtRest(g) ==
    /\ worker_lock[g] = "free"
    /\ \A c \in Callers : cgov[c] = g => pc[c] = "idle"

\* C34: whenever the Status of a governor is Idle and no do_transition is
\* running, next_state equals current_state.
C34_NoStaleNextState ==
    \A g \in Govs :
        (status[g] = STATUS_IDLE /\ AtRest(g)) => next_state[g] = current_state[g]

\* C35: from the moment do_transition has set the Status to Busy until its
\* own last write of the Status (line 775), the Status is Busy or Fault,
\* never Idle or Disabled.
C35_BusyOrFaultInBody ==
    \A c \in Callers :
        (InBody(c) /\ pc[c] \notin {"finclear", "unlock"})
            => status[cgov[c]] \in {STATUS_BUSY, STATUS_FAULT}

\* C36: whenever an engine is in its init_state and no do_transition of it is
\* executing (and its supervisor is between two events), every device's
\* current target is none, so no device is band-monitored in the init state.
C36_NoTargetInInit ==
    \A g \in Govs :
        (current_state[g] = init_state(g) /\ AtRest(g) /\ spc[g] = "get")
            => \A d \in Devs(g) : target[g][d] = NoTarget

\* C37: a do_transition that found Status Fault when it was invoked issues no
\* device move and does not commit a new current_state.
C37_FaultedCallDoesNothing ==
    [][\A c \in Callers :
          (StepOf(c) /\ InBody(c) /\ entry[c] = STATUS_FAULT)
              => \A e \in Added(cgov[c]) : e[1] \notin {"move", "set_state"}]_vars

\* C38: every change of an engine's current_state is either to init_state or
\* to a declared (or synthesized) destination of the state it had immediately
\* before the change, under every interleaving of the event thread and the
\* threads that run transitions.
C38_DeclaredEdgesOnly ==
    [][\A g \in Govs :
          current_state'[g] # current_state[g]
              => \/ current_state'[g] = init_state(g)
                 \/ current_state'[g] \in DOMAIN Transitions(g)[current_state[g]]]_vars

\* C39: in every configuration that check_config accepts, every target a
\* state names for a device is a position the device has (for a valve: Open
\* or Closed), so no move of a declared transition is given a target the
\* device does not know.
C39_TargetsArePositions ==
    cfg_ok =>
        \A s \in DOMAIN raw_config.states :
            \A d \in DOMAIN StateTargets(raw_config.states[s]) :
                raw_config.states[s].targets[d].target
                    \in DevicePositions(raw_config.devices[d])

====
